---- MODULE Spec2Model ----
(***************************************************************************)
(* Verification model of the YouTube playlist batch deleter: the dual-API  *)
(* adapter (lib/youtube: part_001) and the parts of the two App components *)
(* (part_000) that call it.                                                *)
(*                                                                         *)
(* JavaScript strings are sequences of one-character strings, so that      *)
(* trim, toLowerCase, split and the regular expressions are computed, not  *)
(* assumed.  JavaScript objects are sequences of <<key, value>> pairs in   *)
(* insertion order; a fetch Headers object is a function from lower-cased  *)
(* names to values.                                                        *)
(***************************************************************************)
EXTENDS Integers, Sequences, FiniteSets, TLC

----------------------------------------------------------------------------
(* String primitives *)

\* the value of an absent property / an unset optional
undefined == <<"<undefined>">>

UpperChars == <<"A","B","C","D","E","F","G","H","I","J","K","L","M","N","O","P","Q","R","S","T","U","V","W","X","Y","Z">>

LowerChars == <<"a","b","c","d","e","f","g","h","i","j","k","l","m","n","o","p","q","r","s","t","u","v","w","x","y","z">>

\* String.prototype.toLowerCase / toUpperCase on one character
LowerChar(c) ==
  IF \E i \in 1..Len(UpperChars) : UpperChars[i] = c
  THEN LowerChars[CHOOSE i \in 1..Len(UpperChars) : UpperChars[i] = c]
  ELSE c

UpperChar(c) ==
  IF \E i \in 1..Len(LowerChars) : LowerChars[i] = c
  THEN UpperChars[CHOOSE i \in 1..Len(LowerChars) : LowerChars[i] = c]
  ELSE c

RECURSIVE toLowerCase(_)
toLowerCase(s) ==
  IF s = <<>> THEN <<>> ELSE <<LowerChar(Head(s))>> \o toLowerCase(Tail(s))

RECURSIVE toUpperCase(_)
toUpperCase(s) ==
  IF s = <<>> THEN <<>> ELSE <<UpperChar(Head(s))>> \o toUpperCase(Tail(s))

\* the regular expression class \s (and what trim removes)
IsSpace(c) == c \in {" ", "\t", "\n", "\r"}

RECURSIVE trimStart(_)
trimStart(s) ==
  IF s # <<>> /\ IsSpace(Head(s)) THEN trimStart(Tail(s)) ELSE s

RECURSIVE trimEnd(_)
trimEnd(s) ==
  IF s # <<>> /\ IsSpace(s[Len(s)]) THEN trimEnd(SubSeq(s, 1, Len(s) - 1)) ELSE s

\* String.prototype.trim
trim(s) == trimEnd(trimStart(s))

\* String.prototype.split with a one-character separator
RECURSIVE split(_, _)
split(s, sep) ==
  IF \E i \in 1..Len(s) : s[i] = sep
  THEN LET i == CHOOSE k \in 1..Len(s) :
                  s[k] = sep /\ \A j \in 1..(k - 1) : s[j] # sep
       IN  <<SubSeq(s, 1, i - 1)>> \o split(SubSeq(s, i + 1, Len(s)), sep)
  ELSE <<s>>

\* Array.prototype.join with a one-character separator
RECURSIVE join(_, _)
join(segments, sep) ==
  IF segments = <<>> THEN <<>>
  ELSE IF Len(segments) = 1 THEN segments[1]
  ELSE segments[1] \o <<sep>> \o join(Tail(segments), sep)

\* String.prototype.startsWith
startsWith(s, prefix) ==
  Len(s) >= Len(prefix) /\ SubSeq(s, 1, Len(prefix)) = prefix

\* s holds `word` at position i, letter case ignored (a /.../i literal)
HasWordAtI(s, word, i) ==
  /\ i >= 1
  /\ i + Len(word) - 1 <= Len(s)
  /\ toLowerCase(SubSeq(s, i, i + Len(word) - 1)) = toLowerCase(word)

\* a JavaScript string used as a condition: "" and undefined are falsy
Truthy(v) == v # undefined /\ v # <<>>

----------------------------------------------------------------------------
(* Objects: sequences of <<key, value>> pairs in insertion order *)

Has(obj, key) == \E i \in 1..Len(obj) : obj[i][1] = key

Get(obj, key) ==
  IF Has(obj, key)
  THEN obj[CHOOSE i \in 1..Len(obj) : obj[i][1] = key][2]
  ELSE undefined

\* obj[key] = value: an existing key keeps its place
Put(obj, key, value) ==
  IF Has(obj, key)
  THEN LET i == CHOOSE k \in 1..Len(obj) : obj[k][1] = key
       IN  SubSeq(obj, 1, i - 1) \o <<(<<key, value>>)>> \o SubSeq(obj, i + 1, Len(obj))
  ELSE Append(obj, <<key, value>>)

\* { ...a, ...b }
RECURSIVE Spread(_, _)
Spread(a, b) ==
  IF b = <<>> THEN a ELSE Spread(Put(a, b[1][1], b[1][2]), Tail(b))

----------------------------------------------------------------------------
(* lib/youtube: constants *)

DEFAULT_CLIENT_VERSION == <<"2",".","2","0","2","5","1","0","3","0",".","0","1",".","0","0">>

DEFAULT_CLIENT_NAME_CODE == <<"1">>

DEFAULT_ORIGIN == <<"h","t","t","p","s",":","/","/","w","w","w",".","y","o","u","t","u","b","e",".","c","o","m">>

PLAYLIST_BROWSE_ID == <<"F","E","p","l","a","y","l","i","s","t","_","a","g","g","r","e","g","a","t","i","o","n">>

H_Authorization == <<"A","u","t","h","o","r","i","z","a","t","i","o","n">>

H_Cookie == <<"C","o","o","k","i","e">>

H_Origin == <<"O","r","i","g","i","n">>

H_Referer == <<"R","e","f","e","r","e","r">>

H_User_Agent == <<"U","s","e","r","-","A","g","e","n","t">>

H_Accept_Language == <<"A","c","c","e","p","t","-","L","a","n","g","u","a","g","e">>

H_Accept == <<"A","c","c","e","p","t">>

H_Content_Type == <<"C","o","n","t","e","n","t","-","T","y","p","e">>

H_X_Goog_AuthUser == <<"X","-","G","o","o","g","-","A","u","t","h","U","s","e","r">>

H_X_Origin == <<"X","-","O","r","i","g","i","n">>

H_X_Youtube_Client_Name == <<"X","-","Y","o","u","t","u","b","e","-","C","l","i","e","n","t","-","N","a","m","e">>

H_X_Youtube_Client_Version == <<"X","-","Y","o","u","t","u","b","e","-","C","l","i","e","n","t","-","V","e","r","s","i","o","n">>

H_X_Goog_Visitor_Id == <<"X","-","G","o","o","g","-","V","i","s","i","t","o","r","-","I","d">>

PROXY_HEADER_MAP ==
  << <<<<"C","o","o","k","i","e">>,
       <<"X","-","Y","o","u","T","u","b","e","-","P","r","o","x","y","-","C","o","o","k","i","e">>>>,
     <<<<"O","r","i","g","i","n">>,
       <<"X","-","Y","o","u","T","u","b","e","-","P","r","o","x","y","-","O","r","i","g","i","n">>>>,
     <<<<"R","e","f","e","r","e","r">>,
       <<"X","-","Y","o","u","T","u","b","e","-","P","r","o","x","y","-","R","e","f","e","r","e","r">>>>,
     <<<<"U","s","e","r","-","A","g","e","n","t">>,
       <<"X","-","Y","o","u","T","u","b","e","-","P","r","o","x","y","-","U","s","e","r","-","A","g","e","n","t">>>>,
     <<<<"A","c","c","e","p","t","-","L","a","n","g","u","a","g","e">>,
       <<"X","-","Y","o","u","T","u","b","e","-","P","r","o","x","y","-","A","c","c","e","p","t","-","L","a","n","g","u","a","g","e">>>> >>

FORBIDDEN_HEADER_PREFIXES == <<<<"S","e","c","-">>, <<"P","r","o","x","y","-">>>>

FORBIDDEN_HEADER_NAMES ==
  { <<"A","c","c","e","p","t","-","C","h","a","r","s","e","t">>,
    <<"A","c","c","e","p","t","-","E","n","c","o","d","i","n","g">>,
    <<"A","c","c","e","s","s","-","C","o","n","t","r","o","l","-","R","e","q","u","e","s","t","-","H","e","a","d","e","r","s">>,
    <<"A","c","c","e","s","s","-","C","o","n","t","r","o","l","-","R","e","q","u","e","s","t","-","M","e","t","h","o","d">>,
    <<"C","o","n","n","e","c","t","i","o","n">>,
    <<"C","o","n","t","e","n","t","-","L","e","n","g","t","h">>,
    <<"C","o","o","k","i","e">>,
    <<"C","o","o","k","i","e","2">>,
    <<"D","a","t","e">>,
    <<"D","N","T">>,
    <<"E","x","p","e","c","t">>,
    <<"H","o","s","t">>,
    <<"K","e","e","p","-","A","l","i","v","e">>,
    <<"O","r","i","g","i","n">>,
    <<"R","e","f","e","r","e","r">>,
    <<"T","E">>,
    <<"T","r","a","i","l","e","r">>,
    <<"T","r","a","n","s","f","e","r","-","E","n","c","o","d","i","n","g">>,
    <<"U","p","g","r","a","d","e">>,
    <<"V","i","a">> }

APPLICATION_JSON == <<"a","p","p","l","i","c","a","t","i","o","n","/","j","s","o","n">>


DEFAULT_HEADERS ==
  << <<H_Accept, APPLICATION_JSON>>,
     <<H_Content_Type, APPLICATION_JSON>>,
     <<H_X_Goog_AuthUser, <<"0">> >>,
     <<H_X_Origin, DEFAULT_ORIGIN>>,
     <<H_Origin, DEFAULT_ORIGIN>>,
     <<H_X_Youtube_Client_Name, DEFAULT_CLIENT_NAME_CODE>>,
     <<H_X_Youtube_Client_Version, DEFAULT_CLIENT_VERSION>> >>

----------------------------------------------------------------------------
(* lib/youtube: header normalisation and preparation *)

\* a capitalisation that keeps the whole segment after the upper-cased letter
Capitalize_KeepWhole(segment) ==
  IF segment = <<>> THEN <<>>
  ELSE toUpperCase(<<Head(segment)>>) \o segment

\* segment.charAt(0).toUpperCase() + segment.slice(1)
Capitalize(segment) ==
  IF segment = <<>> THEN <<>>
  ELSE toUpperCase(<<Head(segment)>>) \o Tail(segment)

RECURSIVE MapCapitalize(_)
MapCapitalize(segments) ==
  IF segments = <<>> THEN <<>>
  ELSE <<Capitalize(Head(segments))>> \o MapCapitalize(Tail(segments))

normalizeHeaderName(name) ==
  join(MapCapitalize(split(toLowerCase(trim(name)), "-")), "-")

RECURSIVE normalizeHeaderKeysFrom(_, _)
normalizeHeaderKeysFrom(result, entries) ==
  IF entries = <<>> THEN result
  ELSE normalizeHeaderKeysFrom(
         Put(result, normalizeHeaderName(entries[1][1]), entries[1][2]),
         Tail(entries))

normalizeHeaderKeys(headers) == normalizeHeaderKeysFrom(<<>>, headers)

isForbiddenHeaderName(name) ==
  \/ name \in FORBIDDEN_HEADER_NAMES
  \/ \E i \in 1..Len(FORBIDDEN_HEADER_PREFIXES) :
        startsWith(name, FORBIDDEN_HEADER_PREFIXES[i])

\* new Headers(): names are case-insensitive, kept lower-cased
EmptyHeaders == [k \in {} |-> <<>>]

\* Headers.prototype.set
HeadersSet(h, name, value) ==
  LET n == toLowerCase(name)
  IN  [k \in (DOMAIN h) \cup {n} |-> IF k = n THEN value ELSE h[k]]

\* Headers.prototype.get
HeadersGet(h, name) ==
  IF toLowerCase(name) \in DOMAIN h THEN h[toLowerCase(name)] ELSE undefined

\* the loop of prepareHeaders over Object.entries(normalized)
RECURSIVE prepareHeadersLoop(_, _)
prepareHeadersLoop(headers, entries) ==
  IF entries = <<>> THEN headers
  ELSE LET key   == entries[1][1]
           value == entries[1][2]
           rest  == Tail(entries)
       IN  IF ~Truthy(trim(value))
           THEN prepareHeadersLoop(headers, rest)
           ELSE IF Has(PROXY_HEADER_MAP, key)
           THEN prepareHeadersLoop(
                  HeadersSet(headers, Get(PROXY_HEADER_MAP, key), trim(value)), rest)
           ELSE IF isForbiddenHeaderName(key)
           THEN prepareHeadersLoop(headers, rest)
           ELSE prepareHeadersLoop(HeadersSet(headers, key, trim(value)), rest)

\* the merge at the head of prepareHeaders
mergeHeaders(raw) == Spread(DEFAULT_HEADERS, normalizeHeaderKeys(raw))

\* prepareHeaders throws Error("Authorization header is required.")
prepareHeadersThrows(raw) ==
  LET normalized == mergeHeaders(raw)
  IN  ~(Has(normalized, H_Authorization)
        /\ Truthy(trim(Get(normalized, H_Authorization))))

prepareHeaders(raw) ==
  LET normalized == mergeHeaders(raw)
  IN  [headers    |-> prepareHeadersLoop(EmptyHeaders, normalized),
       normalized |-> normalized]

\* /^Bearer\s+/i
MatchesBearerPrefixI(auth) ==
  /\ HasWordAtI(auth, <<"B","e","a","r","e","r">>, 1)
  /\ Len(auth) >= 7
  /\ IsSpace(auth[7])

\* /SAPISID/i
MatchesSapisidI(auth) ==
  \E i \in 1..Len(auth) : HasWordAtI(auth, <<"S","A","P","I","S","I","D">>, i)

shouldUseInnerTube(headers) ==
  LET auth == IF Has(headers, H_Authorization)
              THEN Get(headers, H_Authorization) ELSE <<>>
  IN  IF MatchesBearerPrefixI(auth) THEN FALSE ELSE MatchesSapisidI(auth)

----------------------------------------------------------------------------
(* Bounds and inputs *)

\* the upstreams stop handing out page tokens once a call has issued this
\* many requests (both backends together)
MaxRequests == 3

AUTH_BEARER == <<"B","e","a","r","e","r"," ","a","b","c">>

AUTH_BEARER_LOWER == <<"b","e","a","r","e","r"," ","a","b","c">>

AUTH_BEARER_BARE == <<"B","e","a","r","e","r">>

AUTH_BASIC == <<"B","a","s","i","c"," ","x","y","z">>

AUTH_SAPISIDHASH == <<"S","A","P","I","S","I","D","H","A","S","H"," ","1","2","3","_","a","b","c">>

AUTH_SAPISIDHASH_BARE == <<"S","A","P","I","S","I","D","H","A","S","H">>

AUTH_BLANK == <<" "," ">>

COOKIE_VALUE == <<"S","I","D","=","1">>

\* the header maps a caller hands to the adapter
RawHeaderMaps ==
  { <<>>,
    << <<H_Authorization, AUTH_BLANK>>, <<H_Cookie, COOKIE_VALUE>> >>,
    << <<toLowerCase(H_Authorization), AUTH_BEARER>> >>,
    << <<H_Authorization, AUTH_BEARER_LOWER>> >>,
    << <<H_Authorization, AUTH_BEARER_BARE>> >>,
    << <<H_Authorization, AUTH_BASIC>>, <<H_Cookie, COOKIE_VALUE>> >>,
    << <<H_Authorization, AUTH_SAPISIDHASH>> >>,
    << <<H_Authorization, AUTH_SAPISIDHASH>>, <<toLowerCase(H_Cookie), COOKIE_VALUE>> >>,
    << <<H_Authorization, AUTH_SAPISIDHASH_BARE>>, <<H_Cookie, COOKIE_VALUE>> >> }

PlaylistIds == { <<"P","L","1">>, <<"P","L","2">> }

\* page tokens and continuation tokens an upstream may return
Tokens == { <<"t","1">>, <<"t","2">> }

\* the HTTP statuses of a non-2xx response
ErrorStatuses == {401, 403, 404, 500}

\* the ways fetch() itself rejects: the signal was aborted, the network failed
RejectNames == {"AbortError", "TypeError"}

\* items of the official API's playlists collection
\* itemCount is the value of contentDetails.itemCount in the answer: a number,
\* another JSON value, or absent
ApiItemCounted(id, title, itemCount) ==
  [id |-> id, title |-> title,
   itemCount |-> [t |-> itemCount[1], s |-> itemCount[2], n |-> itemCount[3]]]

ApiItem(id, title) == ApiItemCounted(id, title, <<"undef", <<>>, 0>>)

ApiItemLists ==
  { <<>>,
    << ApiItem(<<"P","L","1">>, <<"A">>) >>,
    << ApiItem(<<"P","L","1">>, <<"A">>), ApiItem(<<"P","L","2">>, undefined) >>,
    << ApiItemCounted(<<"P","L","3">>, <<"C">>, <<"num", <<>>, 7>>) >>,
    << ApiItem(undefined, <<"A">>) >> }

----------------------------------------------------------------------------
(* State *)

VARIABLES
  pc,           \* where the adapter call stands
  op,           \* "none", "list" (fetchAllPlaylists) or "delete" (deletePlaylist)
  frame,        \* the branch of the facade: "none", "direct", "try" or "catch"
  rawHeaders,   \* the call's rawHeaders argument
  playlistId,   \* the call's playlistId argument (delete)
  prepared,     \* the value of prepareHeaders(rawHeaders)
  pageToken,    \* local of fetchPlaylistsDataApi
  continuation, \* local of fetchPlaylistsInnerTube
  playlists,    \* the accumulator of the running list function
  seen,         \* local of fetchPlaylistsInnerTube
  requests,     \* every fetch() the call has issued, in order
  responses,    \* what came back for each of them, in order
  outcome,      \* how the call settled
  app,          \* which App component runs: "organizer" or "deleter"
  headersText,  \* App state: the text of the headers textarea
  uiPlaylists,  \* App state: playlists
  selectedIds,  \* App state
  headersLocked,\* App state (batch deleter only)
  isFetching,   \* App state
  isDeleting,   \* App state
  fetchError,   \* App state
  lastAutoAttemptKey, \* App state (batch deleter only)
  deleteError,  \* App state
  deleteProgress, \* App state
  isDeleteDialogOpen, \* App state
  searchQuery,  \* App state (batch deleter only): the text of the search Input
  sortDirection,\* App state (batch deleter only): "asc", "desc" or null
  fetchCaller,  \* who called the running handleFetchPlaylists: "click" or "effect"
  fetchAbortRef,  \* App ref: "null", or the state of its controller
  deleteAbortRef, \* App ref: "null", or the state of its controller
  mounted,      \* the App component is mounted
  deleteIds,    \* local ids of the running handleDeletePlaylists
  deleteIndex   \* the loop index of the running handleDeletePlaylists

adapterVars == <<pc, op, frame, rawHeaders, playlistId, prepared, pageToken,
                 continuation, playlists, seen, requests, responses, outcome>>

\* the state of the delete dialog and of a running batch delete
deleteVars == <<deleteError, deleteProgress, isDeleteDialogOpen, deleteAbortRef,
                mounted, deleteIds, deleteIndex>>

\* what the playlist table shows of the loaded playlists
viewVars == <<searchQuery, sortDirection>>

uiVars == <<app, headersText, uiPlaylists, selectedIds, headersLocked,
            isFetching, isDeleting, fetchError, lastAutoAttemptKey,
            fetchAbortRef, deleteVars, viewVars, fetchCaller>>

vars == <<adapterVars, uiVars>>

NoError == [name |-> "", status |-> 0]

YouTubeApiError(status) == [name |-> "YouTubeApiError", status |-> status]

Pending == [kind |-> "pending", value |-> <<>>, error |-> NoError]

\* a call that returns nothing of what it gathered
Returned_Nothing(value) == [kind |-> "returned", value |-> <<>>, error |-> NoError]

Returned(value) == [kind |-> "returned", value |-> value, error |-> NoError]

Threw(error) == [kind |-> "threw", value |-> <<>>, error |-> error]

NoPrepared == [headers |-> EmptyHeaders, normalized |-> <<>>]

\* the value of a Ref or state slot that holds null
null == <<"<null>">>

NoFetchError == [kind |-> "none", names |-> <<>>, status |-> 0]

\* deleteError: null, or the kind of message it holds
NoDeleteError == [kind |-> "none", names |-> <<>>, status |-> 0]

AdapterInit ==
  /\ pc = "idle"
  /\ op = "none"
  /\ frame = "none"
  /\ rawHeaders = <<>>
  /\ playlistId = undefined
  /\ prepared = NoPrepared
  /\ pageToken = undefined
  /\ continuation = undefined
  /\ playlists = <<>>
  /\ seen = {}
  /\ requests = <<>>
  /\ responses = <<>>
  /\ outcome = Pending

\* the useState initial values of App
UiInit ==
  /\ headersText = <<>>
  /\ uiPlaylists = <<>>
  /\ selectedIds = {}
  /\ headersLocked = FALSE
  /\ isFetching = FALSE
  /\ isDeleting = FALSE
  /\ fetchError = NoFetchError
  /\ lastAutoAttemptKey = null
  /\ searchQuery = <<>>
  /\ sortDirection = null
  /\ fetchCaller = "none"
  /\ deleteError = NoDeleteError
  /\ deleteProgress = [processed |-> 0, total |-> 0, currentTitle |-> <<>>]
  /\ isDeleteDialogOpen = FALSE
  /\ fetchAbortRef = "null"
  /\ deleteAbortRef = "null"
  /\ mounted = TRUE
  /\ deleteIds = <<>>
  /\ deleteIndex = 0

\* the adapter called directly; no App is mounted
Init ==
  /\ AdapterInit
  /\ UiInit
  /\ app = "none"

----------------------------------------------------------------------------
(* Requests *)

Request(api, method, path, token, id, browseId, headers) ==
  [api |-> api, method |-> method, path |-> path, token |-> token,
   playlistId |-> id, browseId |-> browseId, headers |-> headers]

\* a list request that never carries the page token
DataApiListRequest_NoPageToken(p, token) ==
  Request("data", "GET", "playlists", undefined, undefined, undefined, p.headers)

\* fetchPlaylistsDataApi: GET playlists?...[&pageToken=...]
DataApiListRequest(p, token) ==
  Request("data", "GET", "playlists",
          IF Truthy(token) THEN token ELSE undefined, undefined, undefined,
          p.headers)

\* deletePlaylistDataApi: DELETE playlists?id=...
DataApiDeleteRequest(p, id) ==
  Request("data", "DELETE", "playlists", undefined, id, undefined, p.headers)

\* a payload that names the browse target beside the continuation
buildBrowsePayload_KeepsBrowseId(token) ==
  [continuation |-> IF Truthy(token) THEN token ELSE undefined,
   browseId |-> PLAYLIST_BROWSE_ID]

\* buildBrowsePayload: {context, continuation} or {context, browseId}
buildBrowsePayload(token) ==
  IF Truthy(token)
  THEN [continuation |-> token, browseId |-> undefined]
  ELSE [continuation |-> undefined, browseId |-> PLAYLIST_BROWSE_ID]

\* a browse request built from the default headers alone
InnerTubeBrowseRequest_DefaultHeaders(p, token) ==
  Request("innertube", "POST", "browse", buildBrowsePayload(token).continuation,
          undefined, buildBrowsePayload(token).browseId,
          prepareHeadersLoop(EmptyHeaders, DEFAULT_HEADERS))

\* fetchPlaylistsInnerTube: POST browse
InnerTubeBrowseRequest(p, token) ==
  Request("innertube", "POST", "browse", buildBrowsePayload(token).continuation,
          undefined, buildBrowsePayload(token).browseId, p.headers)

\* deletePlaylistInnerTube: POST playlist/delete
InnerTubeDeleteRequest(p, id) ==
  Request("innertube", "POST", "playlist/delete", undefined, id, undefined,
          p.headers)

\* what the upstream answered: a 2xx body, a non-2xx status, or a rejected
\* fetch; body is the JSON document of a browse answer, items and token what
\* the client read from the answer
NoBody == [root |-> [t |-> "undef", s |-> <<>>, n |-> 0], heap |-> <<>>]

OkResponse(items, token) ==
  [kind |-> "ok", status |-> 200, name |-> "", items |-> items, token |-> token,
   body |-> NoBody]

BrowseResponse(data, items, token) ==
  [kind |-> "ok", status |-> 200, name |-> "", items |-> items, token |-> token,
   body |-> data]

ErrorResponse(status) ==
  [kind |-> "error", status |-> status, name |-> "", items |-> <<>>,
   token |-> undefined, body |-> NoBody]

Rejection(name) ==
  [kind |-> "rejected", status |-> 0, name |-> name, items |-> <<>>,
   token |-> undefined, body |-> NoBody]

----------------------------------------------------------------------------
(* JSON documents of the internal API.  A document is a heap of nodes     *)
(* (objects and arrays) and a root value; a value is a scalar or a        *)
(* reference to a node, so that shared and cyclic references exist.       *)

JUndef == [t |-> "undef", s |-> <<>>, n |-> 0]

JNull == [t |-> "null", s |-> <<>>, n |-> 0]

JStr(s) == [t |-> "str", s |-> s, n |-> 0]

JNum(n) == [t |-> "num", s |-> <<>>, n |-> n]

JRef(n) == [t |-> "ref", s |-> <<>>, n |-> n]

JObj(props) == [isArray |-> FALSE, props |-> props]

JArr(items) == [isArray |-> TRUE, props |-> [i \in 1..Len(items) |-> <<"", items[i]>>]]

\* value && typeof value === "object"
IsObject(v) == v.t = "ref"

\* value is null or undefined (what ?? and ?. test)
Nullish(v) == v.t \in {"undef", "null"}

\* a value used as a condition
JTruthy(v) ==
  CASE v.t = "ref" -> TRUE
    [] v.t = "str" -> v.s # <<>>
    [] v.t = "num" -> v.n # 0
    [] OTHER -> FALSE

\* typeof value === "string" && value
IsNonEmptyString(v) == v.t = "str" /\ v.s # <<>>

\* value.key, for a value that is not null or undefined
Prop(heap, v, key) ==
  IF v.t = "ref" /\ ~heap[v.n].isArray
     /\ \E i \in 1..Len(heap[v.n].props) : heap[v.n].props[i][1] = key
  THEN heap[v.n].props[CHOOSE i \in 1..Len(heap[v.n].props) :
                          heap[v.n].props[i][1] = key][2]
  ELSE JUndef

\* value?.k1?.k2 ...
RECURSIVE Path(_, _, _)
Path(heap, v, keys) ==
  IF keys = <<>> THEN v
  ELSE IF Nullish(v) THEN JUndef
  ELSE Path(heap, Prop(heap, v, Head(keys)), Tail(keys))

\* a ?? b ?? ... over a list of values
RECURSIVE Coalesce(_)
Coalesce(values) ==
  IF values = <<>> THEN JUndef
  ELSE IF ~Nullish(Head(values)) THEN Head(values)
  ELSE Coalesce(Tail(values))

\* Object.values(node), or the items of an array
ValuesOf(heap, v) ==
  [i \in 1..Len(heap[v.n].props) |-> heap[v.n].props[i][2]]

\* \d
IsDigit(c) == c \in {"0","1","2","3","4","5","6","7","8","9"}

\* NaN
JNaN == [t |-> "nan", s |-> <<>>, n |-> 0]

\* Number.isFinite(value): a number that is not NaN (the numbers of the
\* model are integers)
NumberIsFinite(v) == v.t = "num"

\* s.replace(/[^\d]/g, "")
RECURSIVE StripNonDigits(_)
StripNonDigits(s) ==
  IF s = <<>> THEN <<>>
  ELSE (IF IsDigit(Head(s)) THEN <<Head(s)>> ELSE <<>>) \o StripNonDigits(Tail(s))

DigitValue(c) ==
  CHOOSE d \in 0..9 : <<"0","1","2","3","4","5","6","7","8","9">>[d + 1] = c

\* the number a string of digits denotes, most significant digit first
RECURSIVE DigitsValue(_, _)
DigitsValue(s, acc) ==
  IF s = <<>> THEN acc
  ELSE DigitsValue(Tail(s), 10 * acc + DigitValue(Head(s)))

\* parseInt(s.replace(/[^\d]/g, ""), 10)
parseIntOfDigits(s) ==
  LET digits == StripNonDigits(s)
  IN  IF digits = <<>> THEN JNaN ELSE JNum(DigitsValue(digits, 0))

\* String(value) for a string or a plain object
StringOf(heap, v) ==
  IF v.t = "str" THEN v.s
  ELSE <<"[","o","b","j","e","c","t"," ","O","b","j","e","c","t","]">>

\* String.prototype.includes
includes(s, word) ==
  \E i \in 1..Len(s) :
     i + Len(word) - 1 <= Len(s) /\ SubSeq(s, i, i + Len(word) - 1) = word

----------------------------------------------------------------------------
(* lib/youtube: parseBrowseResponse and the renderer conversion *)

\* getText; undefined is JUndef, a text is a JStr
RECURSIVE JoinRuns(_, _)
JoinRuns(heap, runs) ==
  IF runs = <<>> THEN <<>>
  ELSE LET text == Path(heap, Head(runs), <<"text">>)
       IN  (IF text.t = "str" THEN text.s ELSE <<>>) \o JoinRuns(heap, Tail(runs))

getText(heap, value) ==
  IF ~JTruthy(value) THEN JUndef
  ELSE IF value.t = "str" THEN value
  ELSE IF Prop(heap, value, "simpleText").t = "str" THEN Prop(heap, value, "simpleText")
  ELSE IF Prop(heap, value, "content").t = "str" THEN Prop(heap, value, "content")
  ELSE IF IsObject(Prop(heap, value, "runs")) /\ heap[Prop(heap, value, "runs").n].isArray
  THEN JStr(JoinRuns(heap, ValuesOf(heap, Prop(heap, value, "runs"))))
  ELSE JUndef

\* extractPlaylistId; null is JNull
extractPlaylistId(heap, renderer) ==
  LET direct == Coalesce(<<Path(heap, renderer, <<"playlistId">>),
                           Path(heap, renderer, <<"contentId">>)>>)
      navigationId ==
        Coalesce(<<Path(heap, renderer, <<"navigationEndpoint", "watchEndpoint", "playlistId">>),
                   Path(heap, renderer, <<"onTap", "watchEndpoint", "playlistId">>),
                   Path(heap, renderer, <<"trackingParams", "playlistId">>)>>)
  IN  IF IsNonEmptyString(direct) THEN direct
      ELSE IF IsNonEmptyString(navigationId) THEN navigationId
      ELSE JNull

UNTITLED == <<"U","n","t","i","t","l","e","d"," ","p","l","a","y","l","i","s","t">>

\* node.lockupViewModel && (contentType includes "PLAYLIST" || lockup metadata)
isLockupPlaylist(heap, node) ==
  /\ JTruthy(Path(heap, node, <<"lockupViewModel">>))
  /\ \/ /\ Path(heap, node, <<"contentType">>).t = "str"
        /\ includes(Path(heap, node, <<"contentType">>).s,
                    <<"P","L","A","Y","L","I","S","T">>)
     \/ JTruthy(Path(heap, node, <<"lockupViewModel", "metadata", "lockupMetadataViewModel">>))

\* the Playlist record; itemCount is a JSON value
Playlist(id, title, itemCount) == [id |-> id, title |-> title, itemCount |-> itemCount]

\* the item count of a renderer
rendererItemCount(heap, renderer) ==
  LET countText == Coalesce(<<getText(heap, Path(heap, renderer, <<"videoCountShortText">>)),
                              getText(heap, Path(heap, renderer, <<"videoCountText">>)),
                              Path(heap, renderer, <<"videoCount">>),
                              JStr(<<>>)>>)
      itemCount == IF Path(heap, renderer, <<"videoCount">>).t = "num"
                   THEN Path(heap, renderer, <<"videoCount">>)
                   ELSE parseIntOfDigits(StringOf(heap, countText))
  IN  IF NumberIsFinite(itemCount) THEN itemCount ELSE JNum(0)

\* overlays.map(badge text).filter(Boolean)[0]
RECURSIVE firstBadgeText(_, _)
firstBadgeText(heap, overlays) ==
  IF overlays = <<>> THEN JUndef
  ELSE LET badges == Path(heap, Head(overlays),
                          <<"thumbnailOverlayBadgeViewModel", "thumbnailBadges">>)
           first  == IF IsObject(badges) /\ heap[badges.n].isArray
                        /\ heap[badges.n].props # <<>>
                     THEN ValuesOf(heap, badges)[1] ELSE JUndef
           text   == getText(heap, Path(heap, first, <<"thumbnailBadgeViewModel", "text">>))
       IN  IF JTruthy(text) THEN text ELSE firstBadgeText(heap, Tail(overlays))

\* the item count of a view-model lockup, for overlays that can be mapped
lockupItemCount(heap, lockup) ==
  LET overlays  == Path(heap, lockup, <<"contentImage", "collectionThumbnailViewModel",
                                        "primaryThumbnail", "thumbnailViewModel", "overlays">>)
      badgeText == IF IsObject(overlays) /\ heap[overlays.n].isArray
                   THEN firstBadgeText(heap, ValuesOf(heap, overlays)) ELSE JUndef
      itemCount == IF JTruthy(badgeText) THEN parseIntOfDigits(badgeText.s) ELSE JUndef
  IN  IF NumberIsFinite(itemCount) THEN itemCount ELSE JNum(0)

\* value.map(...) of a value that came through `?? []`: anything but an
\* array, null or undefined has no map method and the call throws TypeError
MapThrows(heap, v) == ~Nullish(v) /\ ~(IsObject(v) /\ heap[v.n].isArray)

\* convertLockupPlaylist throws: past the id test, metadataRows.map,
\* parts.map of some row, or overlays.map is called on a non-array
convertLockupThrows(heap, renderer) ==
  LET id       == Coalesce(<<extractPlaylistId(heap, renderer),
                             extractPlaylistId(heap, Prop(heap, renderer, "lockupViewModel"))>>)
      lockup   == Prop(heap, renderer, "lockupViewModel")
      metadata == Path(heap, lockup, <<"metadata", "lockupMetadataViewModel">>)
      rows     == Path(heap, metadata,
                       <<"metadata", "contentMetadataViewModel", "metadataRows">>)
      overlays == Path(heap, lockup, <<"contentImage", "collectionThumbnailViewModel",
                                       "primaryThumbnail", "thumbnailViewModel", "overlays">>)
  IN  /\ ~Nullish(id)
      /\ \/ MapThrows(heap, rows)
         \/ /\ IsObject(rows)
            /\ \E i \in 1..Len(ValuesOf(heap, rows)) :
                  MapThrows(heap, Path(heap, ValuesOf(heap, rows)[i], <<"metadataParts">>))
         \/ MapThrows(heap, overlays)

\* the conversions return <<playlist>>, or <<>> for null
convertLockupPlaylist(heap, renderer) ==
  LET id       == Coalesce(<<extractPlaylistId(heap, renderer),
                             extractPlaylistId(heap, Prop(heap, renderer, "lockupViewModel"))>>)
      lockup   == Prop(heap, renderer, "lockupViewModel")
      metadata == Path(heap, lockup, <<"metadata", "lockupMetadataViewModel">>)
      title    == Coalesce(<<getText(heap, Path(heap, metadata, <<"title">>)),
                             getText(heap, Path(heap, lockup, <<"title">>)),
                             JStr(UNTITLED)>>)
  IN  IF Nullish(id) THEN <<>>
      ELSE <<Playlist(id.s, title.s, lockupItemCount(heap, lockup))>>

convertRendererToPlaylist(heap, renderer) ==
  IF isLockupPlaylist(heap, renderer) THEN convertLockupPlaylist(heap, renderer)
  ELSE LET id    == extractPlaylistId(heap, renderer)
           title == Coalesce(<<getText(heap, Path(heap, renderer, <<"title">>)),
                               JStr(UNTITLED)>>)
       IN  IF Nullish(id) THEN <<>>
           ELSE <<Playlist(id.s, title.s, rendererItemCount(heap, renderer))>>

\* the traversal state: visited nodes, renderers and tokens in discovery order
\* calls counts the invocations of walk (a measure of the work done, not a
\* value of the program)
WalkInit ==
  [visited |-> {}, renderers |-> <<>>, continuationTokens |-> <<>>,
   seenContinuations |-> {}, calls |-> 0]

enqueueRenderer(renderer, st) ==
  IF ~IsObject(renderer) THEN st
  ELSE [st EXCEPT !.renderers = Append(@, renderer)]

recordContinuation(heap, node, st) ==
  IF ~IsObject(node) THEN st
  ELSE LET token ==
             Coalesce(<<Path(heap, node, <<"nextContinuationData", "continuation">>),
                        Path(heap, node, <<"reloadContinuationData", "continuation">>),
                        Path(heap, node, <<"continuationEndpoint", "continuationCommand", "token">>),
                        Path(heap, node, <<"continuationItemRenderer", "continuationEndpoint",
                                           "continuationCommand", "token">>)>>)
       IN  IF IsNonEmptyString(token) /\ token.s \notin st.seenContinuations
           THEN [st EXCEPT !.seenContinuations = @ \cup {token.s},
                           !.continuationTokens = Append(@, token.s)]
           ELSE st

\* the direct renderer fields tested at each object node, in order
RENDERER_FIELDS == <<"playlistRenderer", "gridPlaylistRenderer", "compactPlaylistRenderer">>

\* the container fields walked before the catch-all, in order
CONTAINER_FIELDS ==
  << <<"richItemRenderer", "content">>,
     <<"gridRenderer", "items">>,
     <<"itemSectionRenderer", "contents">>,
     <<"shelfRenderer", "content">>,
     <<"horizontalListRenderer", "items">>,
     <<"expandedShelfContentsRenderer", "items">> >>

RECURSIVE enqueueRenderers(_, _, _, _)
enqueueRenderers(heap, node, fields, st) ==
  IF fields = <<>> THEN st
  ELSE enqueueRenderers(heap, node, Tail(fields),
         IF JTruthy(Prop(heap, node, Head(fields)))
         THEN enqueueRenderer(Prop(heap, node, Head(fields)), st)
         ELSE st)

RECURSIVE walk(_, _, _)
RECURSIVE walkEach(_, _, _)
RECURSIVE walkContainers(_, _, _, _)

walk(heap, node, st) ==
  IF ~IsObject(node) THEN [st EXCEPT !.calls = @ + 1]
  ELSE IF node.n \in st.visited THEN [st EXCEPT !.calls = @ + 1]
  ELSE LET st1 == [st EXCEPT !.visited = @ \cup {node.n}, !.calls = @ + 1]
       IN  IF heap[node.n].isArray
           THEN walkEach(heap, ValuesOf(heap, node), st1)
           ELSE LET st2 == enqueueRenderers(heap, node, RENDERER_FIELDS, st1)
                    st3 == IF isLockupPlaylist(heap, node)
                           THEN enqueueRenderer(node, st2) ELSE st2
                    st4 == recordContinuation(heap, node, st3)
                    st5 == recordContinuation(heap, Prop(heap, node, "continuationItemRenderer"), st4)
                    st6 == walkContainers(heap, node, CONTAINER_FIELDS, st5)
                IN  walkEach(heap, ValuesOf(heap, node), st6)

\* the loop cut short after its first element
walkEach_FirstOnly(heap, values, st) ==
  IF values = <<>> THEN st
  ELSE walk(heap, Head(values), st)

\* for (const value of values) if (value && typeof value === "object") walk(value)
walkEach(heap, values, st) ==
  IF values = <<>> THEN st
  ELSE walkEach(heap, Tail(values), walk(heap, Head(values), st))

walkContainers(heap, node, fields, st) ==
  IF fields = <<>> THEN st
  ELSE LET inner == Path(heap, Prop(heap, node, Head(fields)[1]), <<Head(fields)[2]>>)
       IN  walkContainers(heap, node, Tail(fields),
             IF JTruthy(inner) THEN walk(heap, inner, st) ELSE st)

\* renderers.map(convertRendererToPlaylist) throws: some conversion does
convertAllThrows(heap, renderers) ==
  \E i \in 1..Len(renderers) :
    /\ isLockupPlaylist(heap, renderers[i])
    /\ convertLockupThrows(heap, renderers[i])

\* renderers.map(convertRendererToPlaylist).filter(item => item !== null)
RECURSIVE convertAll(_, _)
convertAll(heap, renderers) ==
  IF renderers = <<>> THEN <<>>
  ELSE convertRendererToPlaylist(heap, Head(renderers)) \o convertAll(heap, Tail(renderers))

\* an extractor that returns the token found last
parseBrowseResponse_LastToken(data) ==
  LET st == walk(data.heap, data.root, WalkInit)
  IN  [items |-> convertAll(data.heap, st.renderers),
       continuation |-> IF st.continuationTokens = <<>> THEN undefined
                        ELSE st.continuationTokens[Len(st.continuationTokens)]]

\* parseBrowseResponse throws instead of returning
parseBrowseResponseThrows(data) ==
  convertAllThrows(data.heap, walk(data.heap, data.root, WalkInit).renderers)

parseBrowseResponse(data) ==
  LET st == walk(data.heap, data.root, WalkInit)
  IN  [items |-> convertAll(data.heap, st.renderers),
       continuation |-> IF st.continuationTokens = <<>> THEN undefined
                        ELSE st.continuationTokens[1]]

----------------------------------------------------------------------------
(* Browse responses the internal upstream may return *)

\* one playlistRenderer (PL1, "A") under contents[], no continuation
DocSingle ==
  [root |-> JRef(1),
   heap |-> << JObj(<< <<"contents", JRef(2)>> >>),
               JArr(<< JRef(3) >>),
               JObj(<< <<"playlistRenderer", JRef(4)>> >>),
               JObj(<< <<"playlistId", JStr(<<"P","L","1">>)>>, <<"title", JRef(5)>> >>),
               JObj(<< <<"simpleText", JStr(<<"A">>)>> >>) >>]

\* PL1 ("B") and PL2 in a grid, the PL1 node listed twice and a second PL1
\* record ("Z"), then a continuation item with token t1 and a second shelf
\* carrying token t2
DocGridMore ==
  [root |-> JRef(1),
   heap |-> << JObj(<< <<"gridRenderer", JRef(2)>>, <<"shelf", JRef(8)>> >>),
               JObj(<< <<"items", JRef(3)>> >>),
               JArr(<< JRef(4), JRef(6), JRef(4), JRef(20), JRef(7) >>),
               JObj(<< <<"gridPlaylistRenderer", JRef(5)>> >>),
               JObj(<< <<"playlistId", JStr(<<"P","L","1">>)>>, <<"title", JStr(<<"B">>)>> >>),
               JObj(<< <<"gridPlaylistRenderer",
                         JRef(9)>> >>),
               JObj(<< <<"continuationItemRenderer", JRef(10)>> >>),
               JObj(<< <<"nextContinuationData", JRef(12)>> >>),
               JObj(<< <<"navigationEndpoint", JRef(13)>>, <<"title", JRef(15)>> >>),
               JObj(<< <<"continuationEndpoint", JRef(11)>> >>),
               JObj(<< <<"continuationCommand", JRef(16)>> >>),
               JObj(<< <<"continuation", JStr(<<"t","2">>)>> >>),
               JObj(<< <<"watchEndpoint", JRef(14)>> >>),
               JObj(<< <<"playlistId", JStr(<<"P","L","2">>)>> >>),
               JObj(<< <<"runs", JRef(17)>> >>),
               JObj(<< <<"token", JStr(<<"t","1">>)>> >>),
               JArr(<< JRef(18), JRef(19) >>),
               JObj(<< <<"text", JStr(<<"B">>)>> >>),
               JObj(<< <<"text", JStr(<<"2">>)>> >>),
               JObj(<< <<"playlistRenderer", JRef(21)>> >>),
               JObj(<< <<"playlistId", JStr(<<"P","L","1">>)>>, <<"title", JStr(<<"Z">>)>> >>) >>]

\* a view-model lockup (PL2, "A"), a renderer without any id, and token t1
\* again, in a graph whose last node points back to the root
DocLockupCycle ==
  [root |-> JRef(1),
   heap |-> << JArr(<< JRef(2), JRef(6), JRef(8) >>),
               JObj(<< <<"lockupViewModel", JRef(3)>>,
                       <<"contentId", JStr(<<"P","L","2">>)>>,
                       <<"contentType", JStr(<<"L","O","C","K","U","P","_","P","L","A","Y","L","I","S","T">>)>> >>),
               JObj(<< <<"metadata", JRef(4)>> >>),
               JObj(<< <<"lockupMetadataViewModel", JRef(5)>> >>),
               JObj(<< <<"title", JRef(9)>> >>),
               JObj(<< <<"compactPlaylistRenderer", JRef(7)>> >>),
               JObj(<< <<"title", JStr(<<"N","o"," ","i","d">>)>> >>),
               JObj(<< <<"reloadContinuationData", JRef(10)>>, <<"back", JRef(1)>> >>),
               JObj(<< <<"content", JStr(<<"A">>)>> >>),
               JObj(<< <<"continuation", JStr(<<"t","1">>)>> >>) >>]

\* a page with PL3 only and token t2
DocThird ==
  [root |-> JRef(1),
   heap |-> << JObj(<< <<"playlistRenderer", JRef(2)>>, <<"nextContinuationData", JRef(3)>> >>),
               JObj(<< <<"playlistId", JStr(<<"P","L","3">>)>>, <<"title", JStr(<<"C">>)>> >>),
               JObj(<< <<"continuation", JStr(<<"t","2">>)>> >>) >>]

\* a body that is no object at all (a text body of a 2xx response)
DocText == [root |-> JStr(<<"o","k">>), heap |-> <<>>]

\* five records with their counts: PL1 a numeric videoCount 5 beside a count
\* text, PL2 the short text "12 videos", PL3 a numeric videoCount -3, PL4 the
\* runs "No" " videos", PL5 a lockup whose badge reads "1,234 videos"
DocCounts ==
  [root |-> JRef(1),
   heap |-> << JArr(<< JRef(2), JRef(4), JRef(6), JRef(8), JRef(12) >>),
               JObj(<< <<"playlistRenderer", JRef(3)>> >>),
               JObj(<< <<"playlistId", JStr(<<"P","L","1">>)>>, <<"videoCount", JNum(5)>>, <<"videoCountText", JStr(<<"9"," ","v","i","d","e","o","s">>)>> >>),
               JObj(<< <<"gridPlaylistRenderer", JRef(5)>> >>),
               JObj(<< <<"playlistId", JStr(<<"P","L","2">>)>>, <<"videoCountShortText", JRef(20)>> >>),
               JObj(<< <<"playlistRenderer", JRef(7)>> >>),
               JObj(<< <<"playlistId", JStr(<<"P","L","3">>)>>, <<"videoCount", JNum(0 - 3)>> >>),
               JObj(<< <<"compactPlaylistRenderer", JRef(9)>> >>),
               JObj(<< <<"playlistId", JStr(<<"P","L","4">>)>>, <<"videoCountText", JRef(10)>> >>),
               JObj(<< <<"runs", JRef(11)>> >>),
               JArr(<< JRef(21), JRef(22) >>),
               JObj(<< <<"lockupViewModel", JRef(13)>>, <<"contentId", JStr(<<"P","L","5">>)>>, <<"contentType", JStr(<<"L","O","C","K","U","P","_","P","L","A","Y","L","I","S","T">>)>> >>),
               JObj(<< <<"contentImage", JRef(14)>> >>),
               JObj(<< <<"collectionThumbnailViewModel", JRef(15)>> >>),
               JObj(<< <<"primaryThumbnail", JRef(16)>> >>),
               JObj(<< <<"thumbnailViewModel", JRef(17)>> >>),
               JObj(<< <<"overlays", JRef(18)>> >>),
               JArr(<< JRef(19) >>),
               JObj(<< <<"thumbnailOverlayBadgeViewModel", JRef(23)>> >>),
               JObj(<< <<"simpleText", JStr(<<"1","2"," ","v","i","d","e","o","s">>)>> >>),
               JObj(<< <<"text", JStr(<<"N","o">>)>> >>),
               JObj(<< <<"text", JStr(<<" ","v","i","d","e","o","s">>)>> >>),
               JObj(<< <<"thumbnailBadges", JRef(24)>> >>),
               JArr(<< JRef(25) >>),
               JObj(<< <<"thumbnailBadgeViewModel", JRef(26)>> >>),
               JObj(<< <<"text", JStr(<<"1",",","2","3","4"," ","v","i","d","e","o","s">>)>> >>) >>]

\* three tokens: t1 under an ordinary property listed first, t2 inside a
\* shelf container listed second, t3 in the root's own continuation item;
\* the last property points back to the root
DocTokens ==
  [root |-> JRef(1),
   heap |-> << JObj(<< <<"a", JRef(2)>>, <<"shelfRenderer", JRef(4)>>,
                       <<"continuationItemRenderer", JRef(7)>>, <<"back", JRef(1)>> >>),
               JObj(<< <<"nextContinuationData", JRef(3)>> >>),
               JObj(<< <<"continuation", JStr(<<"t","1">>)>> >>),
               JObj(<< <<"content", JRef(5)>> >>),
               JObj(<< <<"reloadContinuationData", JRef(6)>> >>),
               JObj(<< <<"continuation", JStr(<<"t","2">>)>> >>),
               JObj(<< <<"continuationEndpoint", JRef(8)>> >>),
               JObj(<< <<"continuationCommand", JRef(9)>> >>),
               JObj(<< <<"token", JStr(<<"t","3">>)>> >>) >>]

\* token t2 at two sibling nodes, then token t1 at a third
DocTokenTwice ==
  [root |-> JRef(1),
   heap |-> << JArr(<< JRef(2), JRef(4), JRef(7) >>),
               JObj(<< <<"nextContinuationData", JRef(3)>> >>),
               JObj(<< <<"continuation", JStr(<<"t","2">>)>> >>),
               JObj(<< <<"continuationEndpoint", JRef(5)>> >>),
               JObj(<< <<"continuationCommand", JRef(6)>> >>),
               JObj(<< <<"token", JStr(<<"t","2">>)>> >>),
               JObj(<< <<"reloadContinuationData", JRef(8)>> >>),
               JObj(<< <<"continuation", JStr(<<"t","1">>)>> >>) >>]

BrowseDocs == {DocSingle, DocGridMore, DocLockupCycle, DocThird, DocText}

\* Generated response graphs: MaxNodes nodes, the root first, every node an
\* envelope around a renderer, a playlist record, or a two-element array,
\* pointing back at the root, at itself, or on to the next node
MaxNodes == 3

GraphNodes == 1..MaxNodes

NodeId(i) == <<"P", "L", <<"1","2","3","4","5","6","7","8","9">>[i]>>

GraphWrap(j) == JObj(<< <<"playlistRenderer", JRef(j)>> >>)

GraphRecord(i, j) ==
  JObj(<< <<"playlistId", JStr(NodeId(i))>>, <<"title", JStr(<<"G">>)>>,
          <<"next", JRef(j)>> >>)

GraphArray(j) == JArr(<< JRef(j), JRef((j % MaxNodes) + 1) >>)

GraphTargets(i) == {1, i, (i % MaxNodes) + 1}

GraphNodeKinds(i) ==
  {GraphWrap(j) : j \in GraphTargets(i)} \cup {GraphRecord(i, j) : j \in GraphTargets(i)}
    \cup {GraphArray(j) : j \in GraphTargets(i)}

RECURSIVE GraphHeaps(_)
GraphHeaps(n) ==
  IF n = 0 THEN { <<>> }
  ELSE { Append(h, node) : h \in GraphHeaps(n - 1), node \in GraphNodeKinds(n) }

GraphDocs == { [root |-> JRef(1), heap |-> h] : h \in GraphHeaps(MaxNodes) }

----------------------------------------------------------------------------
(* lib/youtube: the facade and the two clients, one action per step *)

\* the Playlist built from an item of the official API (title ?? "Untitled playlist")
toPlaylist(item) ==
  Playlist(item.id, IF item.title = undefined THEN UNTITLED ELSE item.title,
           IF Nullish(item.itemCount) THEN JNum(0) ELSE item.itemCount)

RECURSIVE toPlaylists(_)
toPlaylists(items) ==
  IF items = <<>> THEN <<>>
  ELSE <<toPlaylist(Head(items))>> \o toPlaylists(Tail(items))

\* a loop that pushes every item, seen or not
pushUnseen_NoDedupe(acc, items) ==
  [playlists |-> acc.playlists \o items,
   seen |-> acc.seen \cup {items[i].id : i \in 1..Len(items)}]

\* the loop of fetchPlaylistsInnerTube over the items of one page
RECURSIVE pushUnseen(_, _)
pushUnseen(acc, items) ==
  IF items = <<>> THEN acc
  ELSE pushUnseen(
         IF Head(items).id \notin acc.seen
         THEN [playlists |-> Append(acc.playlists, Head(items)),
               seen |-> acc.seen \cup {Head(items).id}]
         ELSE acc,
         Tail(items))

\* a catch clause that falls back on every upstream error
fetchCatchFallsBack_AnyApiError(error) ==
  error.name = "YouTubeApiError"

\* the catch clause of fetchAllPlaylists
fetchCatchFallsBack(error) ==
  error.name = "YouTubeApiError" /\ error.status \in {401, 403}

\* a catch clause that falls back on every upstream error
deleteCatchFallsBack_AnyApiError(error) ==
  error.name = "YouTubeApiError"

\* the catch clause of deletePlaylist
deleteCatchFallsBack(error) ==
  error.name = "YouTubeApiError" /\ error.status \in {401, 403}

\* the call settles: its promise resolves or rejects
Settle(result) ==
  /\ pc' = "settled"
  /\ outcome' = result

\* fetchPlaylistsDataApi is entered: its first request
EnterDataApiList(p) ==
  /\ pc' = "fetchPlaylistsDataApi"
  /\ frame' = "try"
  /\ playlists' = <<>>
  /\ pageToken' = undefined
  /\ requests' = Append(requests, DataApiListRequest(p, undefined))
  /\ UNCHANGED <<continuation, seen, outcome>>

\* fetchPlaylistsInnerTube is entered: its first request
EnterInnerTubeList(p, branch) ==
  /\ pc' = "fetchPlaylistsInnerTube"
  /\ frame' = branch
  /\ playlists' = <<>>
  /\ seen' = {}
  /\ continuation' = undefined
  /\ requests' = Append(requests, InnerTubeBrowseRequest(p, undefined))
  /\ UNCHANGED <<pageToken, outcome>>

fetchAllPlaylists(raw) ==
  /\ pc = "idle"
  /\ op' = "list"
  /\ rawHeaders' = raw
  /\ UNCHANGED <<playlistId, responses>>
  /\ IF prepareHeadersThrows(raw)
     THEN /\ Settle(Threw([name |-> "Error", status |-> 0]))
          /\ UNCHANGED <<frame, prepared, pageToken, continuation, playlists,
                         seen, requests>>
     ELSE /\ prepared' = prepareHeaders(raw)
          /\ IF shouldUseInnerTube(prepareHeaders(raw).normalized)
             THEN EnterInnerTubeList(prepareHeaders(raw), "direct")
             ELSE EnterDataApiList(prepareHeaders(raw))

\* a 2xx answer to the GET of fetchPlaylistsDataApi
DataApiListResponds(items, token) ==
  /\ pc = "fetchPlaylistsDataApi"
  /\ Truthy(token) => Len(requests) < MaxRequests
  /\ UNCHANGED uiVars
  /\ responses' = Append(responses, OkResponse(items, token))
  /\ playlists' = playlists \o toPlaylists(items)
  /\ pageToken' = token
  /\ IF Truthy(token)
     THEN /\ requests' = Append(requests, DataApiListRequest(prepared, token))
          /\ UNCHANGED <<pc, outcome>>
     ELSE /\ Settle(Returned(playlists \o toPlaylists(items)))
          /\ UNCHANGED requests
  /\ UNCHANGED <<op, frame, rawHeaders, playlistId, prepared, continuation, seen>>

\* a non-2xx answer: handleResponse throws, the catch of fetchAllPlaylists decides
DataApiListFails(status) ==
  /\ pc = "fetchPlaylistsDataApi"
  /\ responses' = Append(responses, ErrorResponse(status))
  /\ UNCHANGED uiVars
  /\ IF fetchCatchFallsBack(YouTubeApiError(status))
     THEN EnterInnerTubeList(prepared, "catch")
     ELSE /\ Settle(Threw(YouTubeApiError(status)))
          /\ UNCHANGED <<frame, playlists, seen, continuation, requests, pageToken>>
  /\ UNCHANGED <<op, rawHeaders, playlistId, prepared>>

\* fetch() rejects (abort, network): no YouTubeApiError, so it is rethrown
DataApiListRejects(name) ==
  /\ pc = "fetchPlaylistsDataApi"
  /\ responses' = Append(responses, Rejection(name))
  /\ UNCHANGED uiVars
  /\ IF fetchCatchFallsBack([name |-> name, status |-> 0])
     THEN EnterInnerTubeList(prepared, "catch")
     ELSE /\ Settle(Threw([name |-> name, status |-> 0]))
          /\ UNCHANGED <<frame, playlists, seen, continuation, requests, pageToken>>
  /\ UNCHANGED <<op, rawHeaders, playlistId, prepared>>

\* a 2xx answer to the POST of fetchPlaylistsInnerTube
InnerTubeBrowseResponds(data) ==
  LET parsed == parseBrowseResponse(data)
      acc    == pushUnseen([playlists |-> playlists, seen |-> seen], parsed.items)
  IN  /\ pc = "fetchPlaylistsInnerTube"
      /\ UNCHANGED uiVars
      /\ IF parseBrowseResponseThrows(data)
         THEN /\ responses' = Append(responses, BrowseResponse(data, <<>>, undefined))
              /\ Settle(Threw([name |-> "TypeError", status |-> 0]))
              /\ UNCHANGED <<playlists, seen, continuation, requests>>
         ELSE /\ Truthy(parsed.continuation) => Len(requests) < MaxRequests
              /\ responses' = Append(responses,
                                BrowseResponse(data, parsed.items, parsed.continuation))
              /\ playlists' = acc.playlists
              /\ seen' = acc.seen
              /\ continuation' = parsed.continuation
              /\ IF Truthy(parsed.continuation)
                 THEN /\ requests' = Append(requests,
                                       InnerTubeBrowseRequest(prepared, parsed.continuation))
                      /\ UNCHANGED <<pc, outcome>>
                 ELSE /\ Settle(Returned(acc.playlists))
                      /\ UNCHANGED requests
      /\ UNCHANGED <<op, frame, rawHeaders, playlistId, prepared, pageToken>>

\* a non-2xx answer to the POST: nothing catches it
InnerTubeBrowseFails(status) ==
  /\ pc = "fetchPlaylistsInnerTube"
  /\ responses' = Append(responses, ErrorResponse(status))
  /\ UNCHANGED uiVars
  /\ Settle(Threw(YouTubeApiError(status)))
  /\ UNCHANGED <<op, frame, rawHeaders, playlistId, prepared, pageToken,
                 continuation, playlists, seen, requests>>

InnerTubeBrowseRejects(name) ==
  /\ pc = "fetchPlaylistsInnerTube"
  /\ responses' = Append(responses, Rejection(name))
  /\ UNCHANGED uiVars
  /\ Settle(Threw([name |-> name, status |-> 0]))
  /\ UNCHANGED <<op, frame, rawHeaders, playlistId, prepared, pageToken,
                 continuation, playlists, seen, requests>>

\* deletePlaylist up to its first fetch; log is the list of the requests
\* issued before the call
deletePlaylistAfter(log, id, raw) ==
  /\ op' = "delete"
  /\ rawHeaders' = raw
  /\ playlistId' = id
  /\ UNCHANGED <<responses, pageToken, continuation, playlists, seen>>
  /\ IF prepareHeadersThrows(raw)
     THEN /\ Settle(Threw([name |-> "Error", status |-> 0]))
          /\ requests' = log
          /\ UNCHANGED <<frame, prepared>>
     ELSE /\ prepared' = prepareHeaders(raw)
          /\ outcome' = Pending
          /\ IF shouldUseInnerTube(prepareHeaders(raw).normalized)
             THEN /\ pc' = "deletePlaylistInnerTube"
                  /\ frame' = "direct"
                  /\ requests' = Append(log,
                                   InnerTubeDeleteRequest(prepareHeaders(raw), id))
             ELSE /\ pc' = "deletePlaylistDataApi"
                  /\ frame' = "try"
                  /\ requests' = Append(log,
                                   DataApiDeleteRequest(prepareHeaders(raw), id))

deletePlaylist(id, raw) ==
  /\ pc = "idle"
  /\ deletePlaylistAfter(requests, id, raw)

\* a 2xx answer to the DELETE of deletePlaylistDataApi
DataApiDeleteResponds ==
  /\ pc = "deletePlaylistDataApi"
  /\ responses' = Append(responses, OkResponse(<<>>, undefined))
  /\ UNCHANGED uiVars
  /\ Settle(Returned(<<>>))
  /\ UNCHANGED <<op, frame, rawHeaders, playlistId, prepared, pageToken,
                 continuation, playlists, seen, requests>>

\* a non-2xx answer: the catch of deletePlaylist decides
DataApiDeleteFails(status) ==
  /\ pc = "deletePlaylistDataApi"
  /\ responses' = Append(responses, ErrorResponse(status))
  /\ UNCHANGED uiVars
  /\ IF deleteCatchFallsBack(YouTubeApiError(status))
     THEN /\ pc' = "deletePlaylistInnerTube"
          /\ frame' = "catch"
          /\ requests' = Append(requests, InnerTubeDeleteRequest(prepared, playlistId))
          /\ UNCHANGED outcome
     ELSE /\ Settle(Threw(YouTubeApiError(status)))
          /\ UNCHANGED <<frame, requests>>
  /\ UNCHANGED <<op, rawHeaders, playlistId, prepared, pageToken, continuation,
                 playlists, seen>>

DataApiDeleteRejects(name) ==
  /\ pc = "deletePlaylistDataApi"
  /\ responses' = Append(responses, Rejection(name))
  /\ UNCHANGED uiVars
  /\ IF deleteCatchFallsBack([name |-> name, status |-> 0])
     THEN /\ pc' = "deletePlaylistInnerTube"
          /\ frame' = "catch"
          /\ requests' = Append(requests, InnerTubeDeleteRequest(prepared, playlistId))
          /\ UNCHANGED outcome
     ELSE /\ Settle(Threw([name |-> name, status |-> 0]))
          /\ UNCHANGED <<frame, requests>>
  /\ UNCHANGED <<op, rawHeaders, playlistId, prepared, pageToken, continuation,
                 playlists, seen>>

\* a 2xx answer to the POST of deletePlaylistInnerTube
InnerTubeDeleteResponds ==
  /\ pc = "deletePlaylistInnerTube"
  /\ responses' = Append(responses, OkResponse(<<>>, undefined))
  /\ UNCHANGED uiVars
  /\ Settle(Returned(<<>>))
  /\ UNCHANGED <<op, frame, rawHeaders, playlistId, prepared, pageToken,
                 continuation, playlists, seen, requests>>

InnerTubeDeleteFails(status) ==
  /\ pc = "deletePlaylistInnerTube"
  /\ responses' = Append(responses, ErrorResponse(status))
  /\ UNCHANGED uiVars
  /\ Settle(Threw(YouTubeApiError(status)))
  /\ UNCHANGED <<op, frame, rawHeaders, playlistId, prepared, pageToken,
                 continuation, playlists, seen, requests>>

InnerTubeDeleteRejects(name) ==
  /\ pc = "deletePlaylistInnerTube"
  /\ responses' = Append(responses, Rejection(name))
  /\ UNCHANGED uiVars
  /\ Settle(Threw([name |-> name, status |-> 0]))
  /\ UNCHANGED <<op, frame, rawHeaders, playlistId, prepared, pageToken,
                 continuation, playlists, seen, requests>>

\* the settled call is gone: the adapter keeps nothing between calls
ResetCall ==
  /\ pc' = "idle"
  /\ op' = "none"
  /\ frame' = "none"
  /\ rawHeaders' = <<>>
  /\ playlistId' = undefined
  /\ prepared' = NoPrepared
  /\ pageToken' = undefined
  /\ continuation' = undefined
  /\ playlists' = <<>>
  /\ seen' = {}
  /\ requests' = <<>>
  /\ responses' = <<>>
  /\ outcome' = Pending

----------------------------------------------------------------------------
(* App: the headers textarea and what both components derive from it *)

\* String.prototype.indexOf for one character (-1: absent; 0-based)
indexOf(s, c) ==
  IF \E i \in 1..Len(s) : s[i] = c
  THEN (CHOOSE i \in 1..Len(s) : s[i] = c /\ \A j \in 1..(i - 1) : s[j] # c) - 1
  ELSE -1

\* String.prototype.slice(from, to) with 0-based, in-range arguments
slice(s, from, to) == SubSeq(s, from + 1, to)

\* text.split(/\r?\n/)
splitLines(text) ==
  LET parts == split(text, "\n")
  IN  [i \in 1..Len(parts) |->
         IF i < Len(parts) /\ parts[i] # <<>> /\ parts[i][Len(parts[i])] = "\r"
         THEN SubSeq(parts[i], 1, Len(parts[i]) - 1)
         ELSE parts[i]]

\* the first position at or after i that holds no \s (Len(s) + 1: none)
RECURSIVE SkipSpaces(_, _)
SkipSpaces(s, i) ==
  IF i <= Len(s) /\ IsSpace(s[i]) THEN SkipSpaces(s, i + 1) ELSE i

\* the first position at or after i that holds no \S
RECURSIVE SkipNonSpaces(_, _)
SkipNonSpaces(s, i) ==
  IF i <= Len(s) /\ ~IsSpace(s[i]) THEN SkipNonSpaces(s, i + 1) ELSE i

\* the first position at or after i that holds no \d
RECURSIVE SkipDigits(_, _)
SkipDigits(s, i) ==
  IF i <= Len(s) /\ IsDigit(s[i]) THEN SkipDigits(s, i + 1) ELSE i

REQUEST_METHODS ==
  { <<"G","E","T">>, <<"P","O","S","T">>, <<"P","U","T">>,
    <<"D","E","L","E","T","E">>, <<"P","A","T","C","H">>,
    <<"O","P","T","I","O","N","S">>, <<"H","E","A","D">> }

\* REQUEST_LINE_REGEX.test(s):
\* /^(GET|POST|PUT|DELETE|PATCH|OPTIONS|HEAD)\s+\S+\s+HTTP\/\d+(?:\.\d+)?$/i
REQUEST_LINE_REGEX(s) ==
  \E m \in REQUEST_METHODS :
    /\ HasWordAtI(s, m, 1)
    /\ LET a == Len(m) + 1
           b == SkipSpaces(s, a)
           c == SkipNonSpaces(s, b)
           d == SkipSpaces(s, c)
           e == d + 5
           f == SkipDigits(s, e)
           g == SkipDigits(s, f + 1)
       IN  /\ b > a
           /\ c > b
           /\ d > c
           /\ HasWordAtI(s, <<"H","T","T","P","/">>, d)
           /\ f > e
           /\ \/ f = Len(s) + 1
              \/ /\ f <= Len(s)
                 /\ s[f] = "."
                 /\ g > f + 1
                 /\ g = Len(s) + 1

\* SAPISID_TOKEN_REGEX.test(s): /SAPISIDHASH\s+\S+/i
SAPISID_TOKEN_REGEX(s) ==
  \E i \in 1..Len(s) :
    /\ HasWordAtI(s, <<"S","A","P","I","S","I","D","H","A","S","H">>, i)
    /\ SkipSpaces(s, i + 11) > i + 11
    /\ SkipSpaces(s, i + 11) <= Len(s)

\* one line of parseHeaders' forEach; the batch deleter skips request lines
RECURSIVE parseHeaderLines(_, _, _, _)
parseHeaderLines(lines, index, acc, skipRequestLine) ==
  IF index > Len(lines) THEN acc
  ELSE
    LET trimmed == trim(lines[index])
        separatorIndex == indexOf(trimmed, ":")
        key == trim(slice(trimmed, 0, separatorIndex))
        value == trim(slice(trimmed, separatorIndex + 1, Len(trimmed)))
        next ==
          IF trimmed = <<>> THEN acc
          ELSE IF separatorIndex = -1
          THEN IF skipRequestLine /\ REQUEST_LINE_REGEX(trimmed) THEN acc
               ELSE [acc EXCEPT !.errors =
                       Append(@, [line |-> index, problem |-> "separator"])]
          ELSE IF key = <<>> \/ value = <<>>
          THEN [acc EXCEPT !.errors =
                  Append(@, [line |-> index, problem |-> "empty"])]
          ELSE [acc EXCEPT !.headers = Put(@, normalizeHeaderName(key), value)]
    IN  parseHeaderLines(lines, index + 1, next, skipRequestLine)

\* parseHeaders of the batch deleter
parseHeaders(text) ==
  parseHeaderLines(splitLines(text), 1, [headers |-> <<>>, errors |-> <<>>], TRUE)

\* parseHeaders of the organizer
Organizer_parseHeaders(text) ==
  parseHeaderLines(splitLines(text), 1, [headers |-> <<>>, errors |-> <<>>], FALSE)

\* headers[name] ?? ""
HeaderOrEmpty(h, name) == IF Has(h, name) THEN Get(h, name) ELSE <<>>

----------------------------------------------------------------------------
(* App (batch deleter): what a render derives from the state *)

headers == parseHeaders(headersText).headers

headerErrors == parseHeaders(headersText).errors

authHeader == HeaderOrEmpty(headers, H_Authorization)

cookieHeader == HeaderOrEmpty(headers, H_Cookie)

visitorHeader == HeaderOrEmpty(headers, H_X_Goog_Visitor_Id)

hasSapAuth == SAPISID_TOKEN_REGEX(authHeader)

usingInnerTube == hasSapAuth

\* a list of required headers that forgets the cookie
missingRequiredHeaders_NoCookie ==
  IF authHeader = <<>> THEN <<"Authorization (SAPISIDHASH token)">> ELSE <<>>

missingRequiredHeaders ==
  (IF authHeader = <<>> THEN <<"Authorization (SAPISIDHASH token)">> ELSE <<>>)
  \o (IF hasSapAuth /\ cookieHeader = <<>> THEN <<"Cookie">> ELSE <<>>)

advisoryHeaders ==
  (IF usingInnerTube /\ visitorHeader = <<>>
   THEN <<"X-Goog-Visitor-Id">> ELSE <<>>)
  \o (IF usingInnerTube /\ ~Truthy(Get(headers, H_X_Youtube_Client_Version))
      THEN <<"X-Youtube-Client-Version">> ELSE <<>>)

validationErrors ==
  IF authHeader # <<>> /\ ~hasSapAuth THEN <<"sapisidhash-required">> ELSE <<>>

autoFetchKey ==
  IF ~hasSapAuth THEN null
  ELSE IF Len(headerErrors) > 0 THEN null
  ELSE IF Len(validationErrors) > 0 THEN null
  ELSE IF Len(missingRequiredHeaders) > 0 THEN null
  ELSE join(<<trim(authHeader), trim(cookieHeader), trim(visitorHeader)>>, "|")

isActionDisabled ==
  \/ Len(headerErrors) > 0
  \/ Len(missingRequiredHeaders) > 0
  \/ Len(validationErrors) > 0
  \/ isFetching
  \/ isDeleting

----------------------------------------------------------------------------
(* App (organizer): what a render derives from the state *)

Organizer_headers == Organizer_parseHeaders(headersText).headers

Organizer_headerErrors == Organizer_parseHeaders(headersText).errors

Organizer_authHeader == HeaderOrEmpty(Organizer_headers, H_Authorization)

Organizer_usingOfficialApi == MatchesBearerPrefixI(Organizer_authHeader)

Organizer_usingInnerTube ==
  ~Organizer_usingOfficialApi /\ Organizer_authHeader # <<>>

Organizer_missingRequiredHeaders ==
  (IF Organizer_authHeader = <<>> THEN <<"Authorization">> ELSE <<>>)
  \o (IF Organizer_usingInnerTube /\ ~Truthy(Get(Organizer_headers, H_Cookie))
      THEN <<"Cookie">> ELSE <<>>)

Organizer_advisoryHeaders ==
  (IF Organizer_usingInnerTube
      /\ ~Truthy(Get(Organizer_headers, H_X_Goog_Visitor_Id))
   THEN <<"X-Goog-Visitor-Id">> ELSE <<>>)
  \o (IF Organizer_usingInnerTube
         /\ ~Truthy(Get(Organizer_headers, H_X_Youtube_Client_Version))
      THEN <<"X-Youtube-Client-Version">> ELSE <<>>)

Organizer_isActionDisabled ==
  \/ Len(Organizer_headerErrors) > 0
  \/ Len(Organizer_missingRequiredHeaders) > 0
  \/ isFetching
  \/ isDeleting

----------------------------------------------------------------------------
(* The adapter under every caller and every upstream *)

CallFetchAllPlaylists ==
  /\ \E raw \in RawHeaderMaps : fetchAllPlaylists(raw)
  /\ UNCHANGED uiVars

CallDeletePlaylist ==
  /\ \E id \in PlaylistIds, raw \in RawHeaderMaps : deletePlaylist(id, raw)
  /\ UNCHANGED uiVars

\* the caller has taken the result
Return ==
  /\ pc = "settled"
  /\ ResetCall
  /\ UNCHANGED uiVars

Next ==
  \/ CallFetchAllPlaylists
  \/ CallDeletePlaylist
  \/ \E items \in ApiItemLists, token \in Tokens \cup {undefined, <<>>} :
        DataApiListResponds(items, token)
  \/ \E status \in ErrorStatuses : DataApiListFails(status)
  \/ \E name \in RejectNames : DataApiListRejects(name)
  \/ \E data \in BrowseDocs : InnerTubeBrowseResponds(data)
  \/ \E status \in ErrorStatuses : InnerTubeBrowseFails(status)
  \/ \E name \in RejectNames : InnerTubeBrowseRejects(name)
  \/ DataApiDeleteResponds
  \/ \E status \in ErrorStatuses : DataApiDeleteFails(status)
  \/ \E name \in RejectNames : DataApiDeleteRejects(name)
  \/ InnerTubeDeleteResponds
  \/ \E status \in ErrorStatuses : InnerTubeDeleteFails(status)
  \/ \E name \in RejectNames : InnerTubeDeleteRejects(name)
  \/ Return

Spec == Init /\ [][Next]_vars

----------------------------------------------------------------------------
(* App: the fetch handlers of both components *)

HeaderLine(name, value) == name \o <<":", " ">> \o value

\* texts a user types or pastes into the headers textarea
HeaderTexts ==
  { <<>>,
    HeaderLine(H_Authorization, AUTH_BEARER),
    join(<<HeaderLine(H_Authorization, AUTH_BASIC),
           HeaderLine(H_Cookie, COOKIE_VALUE)>>, "\n"),
    HeaderLine(H_Authorization, AUTH_SAPISIDHASH),
    <<"P","O","S","T"," ","/","b"," ","H","T","T","P","/","2","\r","\n">>
      \o toLowerCase(H_Authorization) \o <<":"," "," ">> \o AUTH_SAPISIDHASH
      \o <<" ","\r","\n">> \o HeaderLine(H_Cookie, COOKIE_VALUE),
    join(<<HeaderLine(H_Authorization, AUTH_SAPISIDHASH),
           HeaderLine(H_Cookie, COOKIE_VALUE),
           HeaderLine(H_X_Goog_Visitor_Id, <<"v","1">>)>>, "\n"),
    join(<<HeaderLine(H_Authorization, AUTH_SAPISIDHASH),
           HeaderLine(H_Cookie, COOKIE_VALUE),
           HeaderLine(H_X_Goog_Visitor_Id, <<"v","1">>),
           HeaderLine(H_X_Youtube_Client_Version, <<"2",".","1">>)>>, "\n"),
    H_Authorization,
    join(<<HeaderLine(H_Authorization, AUTH_SAPISIDHASH_BARE),
           HeaderLine(H_Cookie, COOKIE_VALUE)>>, "\n") }

\* an effect that does not look at the last attempted key
autoFetchEffectPending_Retries ==
  /\ app = "deleter"
  /\ mounted
  /\ ~headersLocked
  /\ ~(isFetching \/ isDeleting)
  /\ autoFetchKey # null

\* the passive effect that follows a render (the automatic fetch) runs
\* before the next input event is handled
autoFetchEffectPending ==
  /\ app = "deleter"
  /\ mounted
  /\ ~headersLocked
  /\ ~(isFetching \/ isDeleting)
  /\ autoFetchKey # null
  /\ autoFetchKey # lastAutoAttemptKey

\* a Textarea that can always be edited
headersReadOnly_Never == FALSE

\* readOnly={headersLocked} of the batch deleter's headers Textarea
headersReadOnly == app = "deleter" /\ headersLocked

\* onChange of the headers Textarea
setHeadersText(text) ==
  /\ app \in {"deleter", "organizer"}
  /\ mounted
  /\ ~isDeleteDialogOpen
  /\ ~(isFetching \/ isDeleting)
  /\ ~headersReadOnly
  /\ ~autoFetchEffectPending
  /\ text # headersText
  /\ headersText' = text
  /\ UNCHANGED <<app, viewVars, fetchCaller, uiPlaylists, selectedIds, headersLocked, isFetching,
                 isDeleting, fetchError, lastAutoAttemptKey, fetchAbortRef,
                 deleteVars>>
  /\ UNCHANGED adapterVars

BlockedFetch(kind, names) ==
  /\ fetchError' = [kind |-> kind, names |-> names, status |-> 0]
  /\ UNCHANGED <<isFetching, fetchAbortRef>>
  /\ UNCHANGED adapterVars

\* the early returns of the batch deleter's handleFetchPlaylists: the first
\* check that stops the fetch, "none" when it goes ahead
fetchGuard ==
  IF Len(headerErrors) > 0 THEN "format"
  ELSE IF ~hasSapAuth THEN "sapisidhash"
  ELSE IF Len(missingRequiredHeaders) > 0 THEN "required"
  ELSE IF Len(validationErrors) > 0 THEN "validation"
  ELSE "none"

\* the early returns of the organizer's handleFetchPlaylists
Organizer_fetchGuard ==
  IF Len(Organizer_headerErrors) > 0 THEN "format"
  ELSE IF Len(Organizer_missingRequiredHeaders) > 0 THEN "required"
  ELSE "none"

\* handleFetchPlaylists of the batch deleter, up to its await
handleFetchPlaylists ==
  /\ UNCHANGED <<app, viewVars, headersText, uiPlaylists, selectedIds, headersLocked,
                 isDeleting, deleteVars>>
  /\ IF fetchGuard # "none"
     THEN BlockedFetch(fetchGuard,
                       IF fetchGuard = "required" THEN missingRequiredHeaders
                       ELSE IF fetchGuard = "validation" THEN validationErrors
                       ELSE <<>>)
     ELSE /\ fetchError' = NoFetchError
          /\ fetchAbortRef' = "live"
          /\ isFetching' = TRUE
          /\ fetchAllPlaylists(headers)

\* the Fetch button of the batch deleter
ClickFetchPlaylists ==
  /\ app = "deleter"
  /\ mounted
  /\ ~isDeleteDialogOpen
  /\ ~(isFetching \/ isActionDisabled)
  /\ ~autoFetchEffectPending
  /\ handleFetchPlaylists
  /\ fetchCaller' = IF fetchGuard # "none" THEN "none" ELSE "click"
  /\ UNCHANGED lastAutoAttemptKey

\* the automatic fetch effect of the batch deleter
autoFetchEffect ==
  /\ autoFetchEffectPending
  /\ lastAutoAttemptKey' = autoFetchKey
  /\ fetchCaller' = IF fetchGuard # "none" THEN "none" ELSE "effect"
  /\ handleFetchPlaylists

\* what the catch clause of a fetch handler stores for an error
FetchErrorOf(error, innerTube) ==
  IF error.name = "YouTubeApiError"
  THEN [kind |-> "api",
        names |-> IF innerTube /\ error.status \in {401, 403}
                  THEN <<"cookie-hint">> ELSE <<>>,
        status |-> error.status]
  ELSE [kind |-> "message", names |-> <<>>, status |-> 0]

\* a catch clause that takes no rejection for a cancellation
isAbortError_Never(error) == FALSE

\* the catch clause of handleFetchPlaylists returns silently on this test
isAbortError(error) == error.name = "AbortError"

\* handleFetchPlaylists of the batch deleter, from its await to its end
handleFetchPlaylistsSettled ==
  /\ app = "deleter"
  /\ pc = "settled"
  /\ op = "list"
  /\ IF outcome.kind = "returned"
     THEN /\ uiPlaylists' = outcome.value
          /\ selectedIds' = {}
          /\ headersLocked' = TRUE
          /\ UNCHANGED fetchError
     ELSE /\ fetchError' = IF isAbortError(outcome.error) THEN fetchError
                           ELSE FetchErrorOf(outcome.error, usingInnerTube)
          /\ UNCHANGED <<uiPlaylists, selectedIds, headersLocked>>
  /\ isFetching' = FALSE
  /\ fetchAbortRef' = "null"
  /\ ResetCall
  /\ fetchCaller' = "none"
  /\ UNCHANGED <<app, viewVars, headersText, isDeleting, lastAutoAttemptKey, deleteVars>>

\* handleFetchPlaylists of the organizer, up to its await
Organizer_handleFetchPlaylists ==
  /\ app = "organizer"
  /\ mounted
  /\ ~isDeleteDialogOpen
  /\ ~(isFetching \/ Organizer_isActionDisabled)
  /\ fetchCaller' = IF Organizer_fetchGuard # "none" THEN "none" ELSE "click"
  /\ UNCHANGED <<app, viewVars, headersText, uiPlaylists, selectedIds, headersLocked,
                 isDeleting, lastAutoAttemptKey, deleteVars>>
  /\ IF Organizer_fetchGuard # "none"
     THEN BlockedFetch(Organizer_fetchGuard,
                       IF Organizer_fetchGuard = "required"
                       THEN Organizer_missingRequiredHeaders ELSE <<>>)
     ELSE /\ fetchError' = NoFetchError
          /\ fetchAbortRef' = "live"
          /\ isFetching' = TRUE
          /\ fetchAllPlaylists(Organizer_headers)

\* handleFetchPlaylists of the organizer, from its await to its end
Organizer_handleFetchPlaylistsSettled ==
  /\ app = "organizer"
  /\ pc = "settled"
  /\ op = "list"
  /\ IF outcome.kind = "returned"
     THEN /\ uiPlaylists' = outcome.value
          /\ selectedIds' = {}
          /\ UNCHANGED fetchError
     ELSE /\ fetchError' = IF isAbortError(outcome.error) THEN fetchError
                           ELSE FetchErrorOf(outcome.error, Organizer_usingInnerTube)
          /\ UNCHANGED <<uiPlaylists, selectedIds>>
  /\ isFetching' = FALSE
  /\ fetchAbortRef' = "null"
  /\ ResetCall
  /\ fetchCaller' = "none"
  /\ UNCHANGED <<app, viewVars, headersText, headersLocked, isDeleting,
                 lastAutoAttemptKey, deleteVars>>

----------------------------------------------------------------------------
(* Either App over the adapter, under every user and every upstream *)

InitUI ==
  /\ AdapterInit
  /\ UiInit
  /\ app \in {"deleter", "organizer"}

\* what the upstreams answer while an App is the caller
UiApiItemLists ==
  { << ApiItem(<<"P","L","1">>, <<"A">>) >>,
    << ApiItem(<<"P","L","1">>, <<"A">>), ApiItem(<<"P","L","2">>, undefined) >> }

UiTokens == { <<"t","1">> }

UiBrowseDocs == { DocSingle, DocGridMore }

UiErrorStatuses == {403, 500}

NextUI ==
  \/ \E text \in HeaderTexts : setHeadersText(text)
  \/ ClickFetchPlaylists
  \/ autoFetchEffect
  \/ handleFetchPlaylistsSettled
  \/ Organizer_handleFetchPlaylists
  \/ Organizer_handleFetchPlaylistsSettled
  \/ \E items \in UiApiItemLists, token \in UiTokens \cup {undefined} :
        DataApiListResponds(items, token)
  \/ \E status \in UiErrorStatuses : DataApiListFails(status)
  \/ \E name \in RejectNames : DataApiListRejects(name)
  \/ \E data \in UiBrowseDocs : InnerTubeBrowseResponds(data)
  \/ \E status \in UiErrorStatuses : InnerTubeBrowseFails(status)
  \/ \E name \in RejectNames : InnerTubeBrowseRejects(name)

SpecUI == InitUI /\ [][NextUI]_vars

----------------------------------------------------------------------------
(* Properties of the facade: backend fallback *)

\* the k-th answer is an HTTP 401 or 403
IsAuthFailure(k) ==
  responses[k].kind = "error" /\ responses[k].status \in {401, 403}

\* the error a failed answer becomes in the caller's hands
ErrorOfResponse(r) ==
  IF r.kind = "error" THEN YouTubeApiError(r.status)
  ELSE [name |-> r.name, status |-> 0]

InnerTubeRequestCount ==
  Cardinality({k \in 1..Len(requests) : requests[k].api = "innertube"})

\* a sequence of playlists with every record whose id occurred earlier removed
DistinctById(items) ==
  LET keep == {i \in 1..Len(items) :
                 \A j \in 1..(i - 1) : items[j].id # items[i].id}
      F[n \in 0..Len(items)] ==
        IF n = 0 THEN <<>>
        ELSE IF n \in keep THEN Append(F[n - 1], items[n]) ELSE F[n - 1]
  IN  F[Len(items)]

\* the items of the answers from..to, in order
RECURSIVE ItemsOfResponses(_, _)
ItemsOfResponses(from, to) ==
  IF from > to THEN <<>>
  ELSE ItemsOfResponses(from, to - 1) \o responses[to].items

\* C1: in fetchAllPlaylists a request goes to the internal backend after an
\* official start only directly after an official answer of 401 or 403, the
\* call never returns to the official backend afterwards (one fallback at
\* most), and every other failed answer, official or internal, ends the call
\* with that error and no further request.
C1_FallbackOnlyOnAuthFailure ==
  op = "list" =>
    /\ \A k \in 2..Len(requests) :
         requests[k].api = "innertube" /\ requests[k - 1].api = "data"
           => IsAuthFailure(k - 1)
    /\ \A k \in 2..Len(requests) :
         requests[k - 1].api = "innertube" => requests[k].api = "innertube"
    /\ \A k \in 1..Len(responses) :
         responses[k].kind # "ok"
         /\ ~(requests[k].api = "data" /\ IsAuthFailure(k))
           => /\ k = Len(requests)
              /\ pc = "settled"
              /\ outcome = Threw(ErrorOfResponse(responses[k]))

\* a list fell back to the internal backend, which failed in turn
C1_Witness ==
  /\ op = "list"
  /\ Len(requests) = 2
  /\ Len(responses) = 2
  /\ requests[1].api = "data"
  /\ IsAuthFailure(1)
  /\ requests[2].api = "innertube"
  /\ responses[2].kind = "error"
  /\ pc = "settled"
  /\ outcome.kind = "threw"

\* C2 (as stated): once an official list request was answered with 403, the
\* call makes exactly one request to the internal endpoint.
C2_ExactlyOneInternalRequest ==
  (op = "list"
   /\ \E j \in 1..Len(responses) :
        requests[j].api = "data" /\ responses[j].kind = "error"
        /\ responses[j].status = 403)
    => InnerTubeRequestCount = 1

\* C2 (amended): an official list request answered with 403 is followed at
\* once by one internal browse request without continuation; every request
\* after it is an internal browse request carrying the continuation of the
\* answer before it; all of them carry the headers of the official request;
\* there is one internal request per internal page; and what the call
\* returns is the internal list alone.
C2_FallbackRunsOneInternalList ==
  op = "list" =>
    \A j \in 1..Len(responses) :
      (requests[j].api = "data" /\ responses[j].kind = "error"
       /\ responses[j].status = 403)
        => /\ Len(requests) > j
           /\ requests[j + 1].api = "innertube"
           /\ requests[j + 1].token = undefined
           /\ requests[j + 1].browseId = PLAYLIST_BROWSE_ID
           /\ \A k \in (j + 1)..Len(requests) :
                /\ requests[k].api = "innertube"
                /\ requests[k].path = "browse"
                /\ requests[k].headers = requests[j].headers
           /\ \A k \in (j + 2)..Len(requests) :
                /\ Truthy(responses[k - 1].token)
                /\ requests[k].token = responses[k - 1].token
           /\ InnerTubeRequestCount =
                1 + Cardinality({k \in (j + 1)..Len(responses) :
                                   responses[k].kind = "ok"
                                   /\ Truthy(responses[k].token)})
           /\ (pc = "settled" /\ outcome.kind = "returned")
                => outcome.value =
                     DistinctById(ItemsOfResponses(j + 1, Len(responses)))

\* a 403 on the second official page, then an internal list of two pages
C2_Witness ==
  /\ op = "list"
  /\ pc = "settled"
  /\ outcome.kind = "returned"
  /\ Len(outcome.value) > 0
  /\ \E j \in 1..Len(responses) :
       /\ requests[j].api = "data"
       /\ responses[j].kind = "error"
       /\ responses[j].status = 403
       /\ Len(requests) = j + 2

\* C3 (as stated): a 401 or 403 on an official page after the first ends the
\* list with that upstream error and starts no internal list.
C3_MidPaginationErrorSurfaces ==
  op = "list" =>
    \A k \in 2..Len(responses) :
      requests[k].api = "data" /\ IsAuthFailure(k)
        => /\ InnerTubeRequestCount = 0
           /\ pc = "settled"
           /\ outcome = Threw(YouTubeApiError(responses[k].status))

\* an official list got a 401 on its second page
C3_Witness ==
  /\ op = "list"
  /\ Len(responses) >= 2
  /\ requests[2].api = "data"
  /\ responses[1].kind = "ok"
  /\ responses[2].kind = "error"
  /\ responses[2].status = 401

\* C4: deletePlaylist selects its backend as listing does; a delete that
\* starts on the internal backend issues that one request; a delete that
\* starts on the official backend issues one DELETE and, exactly when that is
\* answered with 401 or 403, one internal delete with the same playlist id
\* and headers; any other failure ends the call; never more than two requests.
C4_DeleteFallback ==
  (op = "delete" /\ requests # <<>>) =>
    /\ Len(requests) <= 2
    /\ \A k \in 1..Len(requests) :
         /\ requests[k].playlistId = playlistId
         /\ requests[k].headers = prepared.headers
    /\ requests[1].api = "innertube" <=> shouldUseInnerTube(prepared.normalized)
    /\ requests[1].api = "innertube"
         => Len(requests) = 1 /\ requests[1].path = "playlist/delete"
    /\ requests[1].api = "data" => requests[1].method = "DELETE"
    /\ Len(requests) = 2
         <=> (requests[1].api = "data" /\ Len(responses) >= 1 /\ IsAuthFailure(1))
    /\ Len(requests) = 2
         => /\ requests[2].api = "innertube"
            /\ requests[2].path = "playlist/delete"
    /\ \A k \in 1..Len(responses) :
         responses[k].kind # "ok"
         /\ ~(k = 1 /\ requests[1].api = "data" /\ IsAuthFailure(1))
           => /\ k = Len(requests)
              /\ pc = "settled"
              /\ outcome = Threw(ErrorOfResponse(responses[k]))

\* an official DELETE was refused with 403 and the internal delete succeeded
C4_Witness ==
  /\ op = "delete"
  /\ Len(requests) = 2
  /\ requests[1].api = "data"
  /\ responses[1].status = 403
  /\ requests[2].api = "innertube"
  /\ pc = "settled"
  /\ outcome.kind = "returned"

----------------------------------------------------------------------------
(* Properties of the classification *)

\* ^Bearer\s+\S
BearerTokenShape(auth) ==
  /\ startsWith(auth, <<"B","e","a","r","e","r">>)
  /\ SkipSpaces(auth, 7) > 7
  /\ SkipSpaces(auth, 7) <= Len(auth)

\* the session-hash keyword in any letter case, whitespace, a non-empty value
SessionHashShape(auth) ==
  \E i \in 1..Len(auth) :
    /\ HasWordAtI(auth, <<"S","A","P","I","S","I","D","H","A","S","H">>, i)
    /\ SkipSpaces(auth, i + 11) > i + 11
    /\ SkipSpaces(auth, i + 11) <= Len(auth)

\* the Authorization value of the running call
CallAuthorization == HeaderOrEmpty(normalizeHeaderKeys(rawHeaders), H_Authorization)

SeqToSet(s) == {s[i] : i \in 1..Len(s)}

\* C5 (as stated): a call issues a request, list or delete, only when its
\* Authorization has the bearer-token shape or the session-hash shape; with
\* any other Authorization it has ended with an error and no request.
C5_NoRequestWithoutAuthorizationShape ==
  (op # "none"
   /\ ~BearerTokenShape(CallAuthorization)
   /\ ~SessionHashShape(CallAuthorization))
    => /\ requests = <<>>
       /\ pc = "settled"
       /\ outcome.kind = "threw"

\* C6 (as stated): the first request of a call goes to the official backend
\* exactly when Authorization has the bearer-token shape, and to the internal
\* backend exactly when it has the session-hash shape and not the bearer one.
C6_BackendIffShape ==
  requests # <<>> =>
    /\ requests[1].api = "data" <=> BearerTokenShape(CallAuthorization)
    /\ requests[1].api = "innertube"
         <=> (SessionHashShape(CallAuthorization)
              /\ ~BearerTokenShape(CallAuthorization))

\* C5: a list or delete call has issued a request although its Authorization
\* is "Basic xyz", which has neither shape
C5_Witness ==
  /\ op # "none"
  /\ CallAuthorization = AUTH_BASIC
  /\ requests # <<>>

\* C6: the first request of a call went to the official backend although its
\* Authorization does not start with "Bearer"
C6_Witness ==
  /\ requests # <<>>
  /\ requests[1].api = "data"
  /\ ~MatchesBearerPrefixI(CallAuthorization)

----------------------------------------------------------------------------
(* Properties of pagination *)

\* the requests of the call so far all went to the official backend
OfficialOnly == \A k \in 1..Len(requests) : requests[k].api = "data"

\* the place of the first internal request of the call (0: none)
FirstInternal ==
  IF \E k \in 1..Len(requests) : requests[k].api = "innertube"
  THEN CHOOSE k \in 1..Len(requests) :
         requests[k].api = "innertube"
         /\ \A j \in 1..(k - 1) : requests[j].api # "innertube"
  ELSE 0

PairwiseDistinctIds(items) ==
  \A i, j \in 1..Len(items) : items[i].id = items[j].id => i = j

\* C8 (amended): on the official backend the first list request carries no
\* page token, every later one carries the token of the answer before it, an
\* answer with a token is followed by one more request and an answer without
\* one ends the call, so that n pages take exactly n requests; the result is
\* the items of all pages in page order, each as often as the upstream sent
\* it, hence free of duplicates whenever the upstream sent none.
C8_OfficialPagination ==
  (op = "list" /\ requests # <<>> /\ requests[1].api = "data") =>
    /\ requests[1].token = undefined
    /\ \A k \in 2..Len(requests) :
         requests[k].api = "data"
           => /\ Truthy(responses[k - 1].token)
              /\ requests[k].token = responses[k - 1].token
    /\ \A k \in 1..Len(responses) :
         (requests[k].api = "data" /\ responses[k].kind = "ok")
           => IF Truthy(responses[k].token)
              THEN Len(requests) > k /\ requests[k + 1].api = "data"
              ELSE /\ Len(requests) = k
                   /\ pc = "settled"
                   /\ outcome.kind = "returned"
    /\ (OfficialOnly /\ pc = "settled" /\ outcome.kind = "returned")
         => LET sent == ItemsOfResponses(1, Len(responses))
            IN  /\ Len(responses) = Len(requests)
                /\ Len(outcome.value) = Len(sent)
                /\ \A i \in 1..Len(sent) : outcome.value[i].id = sent[i].id
                /\ PairwiseDistinctIds(sent) => PairwiseDistinctIds(outcome.value)

\* C8 (as stated): what an official list returns holds no playlist twice.
C8_OfficialResultHasNoDuplicates ==
  (op = "list" /\ OfficialOnly /\ pc = "settled" /\ outcome.kind = "returned")
    => PairwiseDistinctIds(outcome.value)

\* an official list of three pages has returned their three different items
C8_Witness ==
  /\ op = "list"
  /\ OfficialOnly
  /\ Len(requests) = 3
  /\ pc = "settled"
  /\ outcome.kind = "returned"
  /\ Len(outcome.value) >= 3
  /\ Cardinality({outcome.value[i].id : i \in 1..Len(outcome.value)}) >= 3

\* C9: the accumulator of an internal list, and so what the list returns,
\* holds each playlist id once: it is the items discovered so far, in
\* discovery order, less every item whose id was discovered before.
C9_InternalListFirstWins ==
  (op = "list" /\ FirstInternal > 0) =>
    /\ PairwiseDistinctIds(playlists)
    /\ playlists = DistinctById(ItemsOfResponses(FirstInternal, Len(responses)))
    /\ seen = {playlists[i].id : i \in 1..Len(playlists)}
    /\ (pc = "settled" /\ outcome.kind = "returned") => outcome.value = playlists

\* an internal list has returned after an id came twice on one page and once
\* more on the next
C9_Witness ==
  /\ op = "list"
  /\ FirstInternal = 1
  /\ pc = "settled"
  /\ outcome.kind = "returned"
  /\ Len(responses) = 2
  /\ ~PairwiseDistinctIds(responses[1].items)
  /\ \E i \in 1..Len(responses[1].items), j \in 1..Len(responses[2].items) :
       responses[1].items[i].id = responses[2].items[j].id
  /\ Len(outcome.value) >= 2

\* C10 (as stated): in an internal list no continuation token is sent in
\* more than one request.
C10_NoTokenSentTwice ==
  op = "list" =>
    \A k, l \in 1..Len(requests) :
      (requests[k].api = "innertube" /\ requests[l].api = "innertube"
       /\ Truthy(requests[k].token) /\ requests[k].token = requests[l].token)
        => k = l

\* an internal list has sent its third request
C10_Witness ==
  /\ op = "list"
  /\ FirstInternal = 1
  /\ Len(requests) = 3
  /\ Truthy(requests[3].token)

----------------------------------------------------------------------------
(* The extractor on generated response graphs: internal-path lists whose
   answers are drawn from GraphDocs and from the cyclic sample document *)

SESSION_HEADERS ==
  << <<H_Authorization, AUTH_SAPISIDHASH>>, <<H_Cookie, COOKIE_VALUE>> >>

ExtractorDocs == GraphDocs \cup {DocLockupCycle, DocText, DocCounts}

ExtractorList ==
  /\ fetchAllPlaylists(SESSION_HEADERS)
  /\ UNCHANGED uiVars

NextExtractor ==
  \/ ExtractorList
  \/ \E data \in ExtractorDocs : InnerTubeBrowseResponds(data)
  \/ Return

SpecExtractor == Init /\ [][NextExtractor]_vars

\* the object nodes reachable from a set of nodes along property values and
\* array elements
RECURSIVE ReachFrom(_, _)
ReachFrom(heap, nodes) ==
  LET more == nodes \cup
                { v.n : v \in UNION { SeqToSet(ValuesOf(heap, JRef(n))) : n \in nodes } \cap
                                { JRef(k) : k \in DOMAIN heap } }
  IN  IF more = nodes THEN nodes ELSE ReachFrom(heap, more)

Reachable(data) ==
  IF IsObject(data.root) THEN ReachFrom(data.heap, {data.root.n}) ELSE {}

\* the places of a document that hold a playlist record: a renderer field of
\* a reachable object, or a reachable view-model lockup itself
RecordPlaces(data) ==
  { <<n, f>> \in Reachable(data) \X SeqToSet(RENDERER_FIELDS) :
      /\ ~data.heap[n].isArray
      /\ IsObject(Prop(data.heap, JRef(n), f)) }
    \cup
  { <<n, "lockupViewModel">> : n \in { k \in Reachable(data) :
                                  /\ ~data.heap[k].isArray
                                  /\ isLockupPlaylist(data.heap, JRef(k)) } }

RecordAt(data, place) ==
  IF place[2] = "lockupViewModel"
  THEN convertRendererToPlaylist(data.heap, JRef(place[1]))
  ELSE convertRendererToPlaylist(data.heap, Prop(data.heap, JRef(place[1]), place[2]))

ValidPlaces(data) == { place \in RecordPlaces(data) : RecordAt(data, place) # <<>> }

\* the number of property values and array elements of a document
RECURSIVE EdgeCount(_, _)
EdgeCount(heap, n) ==
  IF n = 0 THEN 0 ELSE Len(heap[n].props) + EdgeCount(heap, n - 1)

\* some node of the document lies on a cycle of references
HasBackReference(data) ==
  \E n \in Reachable(data) :
    n \in ReachFrom(data.heap,
            { v.n : v \in SeqToSet(ValuesOf(data.heap, JRef(n))) \cap
                          { JRef(k) : k \in DOMAIN data.heap } }) 

BrowseAnswers == { k \in 1..Len(responses) : responses[k].body # NoBody }

\* C11: the traversal of every response graph, cyclic ones included, ends
\* after at most one visit per reference (plus the six container probes of
\* each object), and the records returned are exactly the valid records at
\* the record places of the reachable nodes, one per place.
C11_TraversalTerminatesAndReturnsReachable ==
  \A k \in BrowseAnswers :
    LET data == responses[k].body
        st   == walk(data.heap, data.root, WalkInit)
    IN  /\ st.calls <= 1 + EdgeCount(data.heap, Len(data.heap)) + 6 * Len(data.heap)
        /\ st.visited = Reachable(data)
        /\ Len(responses[k].items) = Cardinality(ValidPlaces(data))
        /\ SeqToSet(responses[k].items) =
             { RecordAt(data, place)[1] : place \in ValidPlaces(data) }

\* a graph with a back-reference was traversed and a record found in it was
\* returned
C11_Witness ==
  \E k \in BrowseAnswers :
    /\ HasBackReference(responses[k].body)
    /\ responses[k].body \in GraphDocs
    /\ Len(responses[k].items) >= 1
    /\ pc = "settled"
    /\ outcome.kind = "returned"

----------------------------------------------------------------------------
(* C12 *)

\* a value that is a string of at least one character
NonEmptyId(id) == id # undefined /\ id # null /\ id # <<>>

ReturnedList ==
  pc = "settled" /\ op = "list" /\ outcome.kind = "returned"

\* C12: every Playlist a list call returns, from the official or the
\* internal backend, has a non-empty id.
C12_ReturnedIdsNonEmpty ==
  ReturnedList =>
    \A i \in 1..Len(outcome.value) : NonEmptyId(outcome.value[i].id)

\* an official list whose answer held an item without id has returned it
C12_Witness ==
  /\ ReturnedList
  /\ OfficialOnly
  /\ \E i \in 1..Len(outcome.value) : outcome.value[i].id = undefined

----------------------------------------------------------------------------
(* C13 *)

CountOf(id) ==
  LET i == CHOOSE i \in 1..Len(outcome.value) : outcome.value[i].id = id
  IN  outcome.value[i].itemCount

\* C13: the itemCount of every returned Playlist is a non-negative integer.
C13_ItemCountNonNegativeInteger ==
  ReturnedList =>
    \A i \in 1..Len(outcome.value) :
      outcome.value[i].itemCount.t = "num" /\ outcome.value[i].itemCount.n >= 0

\* the list of the five counted records has returned: the numeric count as
\* it was sent, negative included, and the digits of the count texts
C13_Witness ==
  /\ ReturnedList
  /\ Len(responses) = 1
  /\ responses[1].body = DocCounts
  /\ Len(outcome.value) = 5
  /\ CountOf(<<"P","L","1">>) = JNum(5)
  /\ CountOf(<<"P","L","2">>) = JNum(12)
  /\ CountOf(<<"P","L","3">>) = JNum(0 - 3)
  /\ CountOf(<<"P","L","4">>) = JNum(0)
  /\ CountOf(<<"P","L","5">>) = JNum(1234)

----------------------------------------------------------------------------
(* Selection and batch deletion, the same code in both Apps *)

\* the values either App's handlers read
AppHeaders == IF app = "deleter" THEN headers ELSE Organizer_headers

AppMissingRequiredHeaders ==
  IF app = "deleter" THEN missingRequiredHeaders ELSE Organizer_missingRequiredHeaders

AppUsingInnerTube == IF app = "deleter" THEN usingInnerTube ELSE Organizer_usingInnerTube

\* Array.from(selectedIds): the ids in the order they were selected; every
\* order of the set arises from some sequence of toggles
Orders(S) ==
  { s \in [1..Cardinality(S) -> S] : \A i, j \in 1..Cardinality(S) : s[i] = s[j] => i = j }

\* playlists.find((item) => item.id === id)?.title ?? ""
TitleOf(id) ==
  IF \E i \in 1..Len(uiPlaylists) : uiPlaylists[i].id = id
  THEN uiPlaylists[CHOOSE i \in 1..Len(uiPlaylists) :
                     /\ uiPlaylists[i].id = id
                     /\ \A j \in 1..(i - 1) : uiPlaylists[j].id # id].title
  ELSE <<>>

\* a filter that keeps every item
WithoutId_KeepAll(list, id) == list

\* prev.filter((item) => item.id !== id)
RECURSIVE WithoutId(_, _)
WithoutId(list, id) ==
  IF list = <<>> THEN <<>>
  ELSE (IF Head(list).id # id THEN <<Head(list)>> ELSE <<>>) \o WithoutId(Tail(list), id)

\* searchQuery.trim().toLowerCase()
SearchQueryNormalized == toLowerCase(trim(searchQuery))

\* playlists.filter((playlist) => playlist.title.toLowerCase().includes(query))
RECURSIVE FilterByTitle(_, _)
FilterByTitle(list, query) ==
  IF list = <<>> THEN <<>>
  ELSE (IF includes(toLowerCase(Head(list).title), query) THEN <<Head(list)>> ELSE <<>>)
         \o FilterByTitle(Tail(list), query)

filteredPlaylists ==
  IF Len(SearchQueryNormalized) = 0 THEN uiPlaylists
  ELSE FilterByTitle(uiPlaylists, SearchQueryNormalized)

\* the order of the base letters: space, digits, then letters without case
CollationOrder ==
  <<" ", "0", "1", "2", "3", "4", "5", "6", "7", "8", "9">> \o LowerChars

CharRank(c) ==
  IF \E i \in 1..Len(CollationOrder) : CollationOrder[i] = LowerChar(c)
  THEN CHOOSE i \in 1..Len(CollationOrder) : CollationOrder[i] = LowerChar(c)
  ELSE 0

\* a.localeCompare(b, undefined, { sensitivity: "base" })
RECURSIVE localeCompare(_, _)
localeCompare(a, b) ==
  IF a = <<>> /\ b = <<>> THEN 0
  ELSE IF a = <<>> THEN 0 - 1
  ELSE IF b = <<>> THEN 1
  ELSE IF CharRank(Head(a)) < CharRank(Head(b)) THEN 0 - 1
  ELSE IF CharRank(Head(a)) > CharRank(Head(b)) THEN 1
  ELSE localeCompare(Tail(a), Tail(b))

\* the comparator handed to sort
SortComparison(a, b, direction) ==
  IF direction = <<"a","s","c">> THEN localeCompare(a.title, b.title)
  ELSE 0 - localeCompare(a.title, b.title)

\* [...list].sort(comparator): the sort is stable
RECURSIVE InsertSorted(_, _, _)
InsertSorted(sorted, item, direction) ==
  IF sorted = <<>> THEN <<item>>
  ELSE IF SortComparison(Head(sorted), item, direction) <= 0
  THEN <<Head(sorted)>> \o InsertSorted(Tail(sorted), item, direction)
  ELSE <<item>> \o sorted

RECURSIVE SortedBy(_, _)
SortedBy(list, direction) ==
  IF list = <<>> THEN <<>>
  ELSE InsertSorted(SortedBy(SubSeq(list, 1, Len(list) - 1), direction),
                    list[Len(list)], direction)

\* the rows of the batch deleter's table
processedPlaylists ==
  IF sortDirection = null THEN filteredPlaylists
  ELSE SortedBy(filteredPlaylists, sortDirection)

allVisibleSelected ==
  /\ Len(processedPlaylists) > 0
  /\ \A i \in 1..Len(processedPlaylists) : processedPlaylists[i].id \in selectedIds

\* the rows either App renders
VisiblePlaylists == IF app = "deleter" THEN processedPlaylists ELSE uiPlaylists

\* onChange of the search Input, and its Clear button
setSearchQuery(text) ==
  /\ app = "deleter"
  /\ mounted
  /\ pc # "settled"
  /\ ~isDeleting
  /\ ~isDeleteDialogOpen
  /\ ~autoFetchEffectPending
  /\ text # searchQuery
  /\ searchQuery' = text
  /\ UNCHANGED <<app, sortDirection, fetchCaller, headersText, uiPlaylists, selectedIds,
                 headersLocked, isFetching, isDeleting, fetchError,
                 lastAutoAttemptKey, fetchAbortRef, deleteVars>>
  /\ UNCHANGED adapterVars

\* the Title button of the table head
handleToggleSort ==
  /\ app = "deleter"
  /\ mounted
  /\ pc # "settled"
  /\ ~isDeleteDialogOpen
  /\ ~autoFetchEffectPending
  /\ Len(processedPlaylists) > 0
  /\ sortDirection' = IF sortDirection = <<"a","s","c">> THEN <<"d","e","s","c">>
                      ELSE IF sortDirection = <<"d","e","s","c">> THEN null
                      ELSE <<"a","s","c">>
  /\ UNCHANGED <<app, searchQuery, fetchCaller, headersText, uiPlaylists, selectedIds,
                 headersLocked, isFetching, isDeleting, fetchError,
                 lastAutoAttemptKey, fetchAbortRef, deleteVars>>
  /\ UNCHANGED adapterVars

\* an updater that selects every known id
toggleSelectAllUpdater_EveryId(prev) == prev \cup PlaylistIds

\* the updater toggleSelectAll hands to setSelectedIds
toggleSelectAllUpdater(prev) ==
  IF allVisibleSelected
  THEN prev \ { processedPlaylists[i].id : i \in 1..Len(processedPlaylists) }
  ELSE prev \cup { processedPlaylists[i].id : i \in 1..Len(processedPlaylists) }

\* the Checkbox of the table head of the batch deleter
toggleSelectAll ==
  /\ app = "deleter"
  /\ mounted
  /\ pc # "settled"
  /\ ~isDeleteDialogOpen
  /\ ~autoFetchEffectPending
  /\ ~(Len(processedPlaylists) = 0 \/ isDeleting)
  /\ selectedIds' = toggleSelectAllUpdater(selectedIds)
  /\ UNCHANGED <<app, viewVars, fetchCaller, headersText, uiPlaylists, headersLocked, isFetching,
                 isDeleting, fetchError, lastAutoAttemptKey, fetchAbortRef,
                 deleteVars>>
  /\ UNCHANGED adapterVars

\* the Checkbox of the table head of the organizer
Organizer_toggleSelectAll ==
  /\ app = "organizer"
  /\ mounted
  /\ pc # "settled"
  /\ ~isDeleteDialogOpen
  /\ ~(Len(uiPlaylists) = 0 \/ isDeleting)
  /\ selectedIds' =
       IF Len(uiPlaylists) > 0 /\ Cardinality(selectedIds) = Len(uiPlaylists)
       THEN {}
       ELSE { uiPlaylists[i].id : i \in 1..Len(uiPlaylists) }
  /\ UNCHANGED <<app, viewVars, fetchCaller, headersText, uiPlaylists, headersLocked, isFetching,
                 isDeleting, fetchError, lastAutoAttemptKey, fetchAbortRef,
                 deleteVars>>
  /\ UNCHANGED adapterVars

\* the "Edit token" Button of the batch deleter
handleUnlockHeaders ==
  /\ app = "deleter"
  /\ mounted
  /\ pc # "settled"
  /\ ~isDeleteDialogOpen
  /\ headersLocked
  /\ ~(isFetching \/ isDeleting)
  /\ headersLocked' = FALSE
  /\ uiPlaylists' = <<>>
  /\ selectedIds' = {}
  /\ fetchError' = NoFetchError
  /\ deleteError' = NoDeleteError
  /\ lastAutoAttemptKey' = autoFetchKey
  /\ UNCHANGED <<app, viewVars, fetchCaller, headersText, isFetching, isDeleting, fetchAbortRef,
                 deleteProgress, isDeleteDialogOpen, deleteAbortRef, mounted,
                 deleteIds, deleteIndex>>
  /\ UNCHANGED adapterVars

\* the Checkbox of a table row
toggleSelect(id) ==
  /\ mounted
  /\ pc # "settled"
  /\ ~isDeleting
  /\ ~isDeleteDialogOpen
  /\ \E i \in 1..Len(VisiblePlaylists) : VisiblePlaylists[i].id = id
  /\ selectedIds' = IF id \in selectedIds THEN selectedIds \ {id}
                    ELSE selectedIds \cup {id}
  /\ UNCHANGED <<app, viewVars, fetchCaller, headersText, uiPlaylists, headersLocked, isFetching,
                 isDeleting, fetchError, lastAutoAttemptKey, fetchAbortRef,
                 deleteVars>>
  /\ UNCHANGED adapterVars

\* a trigger that stays enabled while a list runs
deleteTriggerDisabled_IgnoresFetching ==
  selectedIds = {} \/ isDeleting \/ Len(AppMissingRequiredHeaders) > 0

\* disabled of the "Delete selected" Button
deleteTriggerDisabled ==
  selectedIds = {} \/ isDeleting \/ isFetching \/ Len(AppMissingRequiredHeaders) > 0

\* the "Delete selected" Button opens the AlertDialog
openDeleteDialog ==
  /\ mounted
  /\ ~isDeleteDialogOpen
  /\ ~deleteTriggerDisabled
  /\ isDeleteDialogOpen' = TRUE
  /\ UNCHANGED <<deleteError, deleteProgress, deleteAbortRef, mounted, deleteIds,
                 deleteIndex>>
  /\ UNCHANGED <<app, viewVars, fetchCaller, headersText, uiPlaylists, selectedIds, headersLocked,
                 isFetching, isDeleting, fetchError, lastAutoAttemptKey,
                 fetchAbortRef>>
  /\ UNCHANGED adapterVars

\* the dialog renders the "Processing N of M" panel
progressShown == isDeleteDialogOpen /\ isDeleting

\* the Cancel control of the dialog is enabled
cancelEnabled == isDeleteDialogOpen /\ ~isDeleting

\* AlertDialogCancel: its onClick, then the dialog closes
ClickCancel ==
  /\ mounted
  /\ cancelEnabled
  /\ deleteAbortRef' = IF isDeleting /\ deleteAbortRef = "live" THEN "aborted"
                       ELSE deleteAbortRef
  /\ isDeleteDialogOpen' = FALSE
  /\ UNCHANGED <<deleteError, deleteProgress, mounted, deleteIds, deleteIndex>>
  /\ UNCHANGED <<app, viewVars, fetchCaller, headersText, uiPlaylists, selectedIds, headersLocked,
                 isFetching, isDeleting, fetchError, lastAutoAttemptKey,
                 fetchAbortRef>>
  /\ UNCHANGED adapterVars

\* what the catch clause of handleDeletePlaylists stores for an error
DeleteErrorOf(error, innerTube) ==
  IF error.name = "AbortError" THEN [kind |-> "cancelled", names |-> <<>>, status |-> 0]
  ELSE IF error.name = "YouTubeApiError"
  THEN [kind |-> "api",
        names |-> IF innerTube /\ error.status \in {401, 403}
                  THEN <<"cookie-hint">> ELSE <<>>,
        status |-> error.status]
  ELSE [kind |-> "message", names |-> <<>>, status |-> 0]

\* the loop goes on to the next id without looking at how the await ended
batchContinues_Always(result) == result.kind \in {"returned", "threw"}

\* await deletePlaylist(...) returns and the loop body goes on; a rejection
\* leaves the loop for the catch clause
batchContinues(result) == result.kind = "returned"

\* handleDeletePlaylists up to its first await (the Confirm control)
handleDeletePlaylists ==
  /\ mounted
  /\ isDeleteDialogOpen
  /\ ~isDeleting
  /\ pc = "idle"
  /\ UNCHANGED <<app, viewVars, fetchCaller, headersText, uiPlaylists, selectedIds, headersLocked,
                 isFetching, fetchError, lastAutoAttemptKey, fetchAbortRef>>
  /\ UNCHANGED <<isDeleteDialogOpen, mounted>>
  /\ IF selectedIds = {}
     THEN /\ deleteError' = NoDeleteError
          /\ UNCHANGED <<isDeleting, deleteProgress, deleteAbortRef, deleteIds,
                         deleteIndex>>
          /\ UNCHANGED adapterVars
     ELSE IF Len(AppMissingRequiredHeaders) > 0
     THEN /\ deleteError' = [kind |-> "required", names |-> AppMissingRequiredHeaders,
                             status |-> 0]
          /\ UNCHANGED <<isDeleting, deleteProgress, deleteAbortRef, deleteIds,
                         deleteIndex>>
          /\ UNCHANGED adapterVars
     ELSE \E ids \in Orders(selectedIds) :
            /\ deleteError' = NoDeleteError
            /\ deleteAbortRef' = "live"
            /\ isDeleting' = TRUE
            /\ deleteIds' = ids
            /\ deleteIndex' = 0
            /\ deleteProgress' = [processed |-> 0, total |-> Len(ids),
                                  currentTitle |-> TitleOf(ids[1])]
            /\ deletePlaylistAfter(<<>>, ids[1], AppHeaders)

\* the finally clause of handleDeletePlaylists
FinishBatch ==
  /\ isDeleting' = FALSE
  /\ deleteAbortRef' = "null"
  /\ isDeleteDialogOpen' = FALSE
  /\ deleteIds' = <<>>
  /\ deleteIndex' = 0
  /\ ResetCall

\* handleDeletePlaylists from one await to the next, or to its end
handleDeletePlaylistsResumed ==
  /\ pc = "settled"
  /\ op = "delete"
  /\ isDeleting
  /\ UNCHANGED <<app, viewVars, fetchCaller, headersText, headersLocked, isFetching, fetchError,
                 lastAutoAttemptKey, fetchAbortRef, mounted>>
  /\ LET id == deleteIds[deleteIndex + 1]
     IN  IF batchContinues(outcome)
         THEN /\ uiPlaylists' = WithoutId(uiPlaylists, id)
              /\ selectedIds' = selectedIds \ {id}
              /\ UNCHANGED deleteError
              /\ IF deleteIndex + 1 < Len(deleteIds)
                 THEN /\ deleteIndex' = deleteIndex + 1
                      /\ deleteProgress' =
                           [processed |-> deleteIndex + 1, total |-> Len(deleteIds),
                            currentTitle |-> TitleOf(deleteIds[deleteIndex + 2])]
                      /\ deletePlaylistAfter(requests, deleteIds[deleteIndex + 2],
                                             AppHeaders)
                      /\ UNCHANGED <<isDeleting, deleteAbortRef, isDeleteDialogOpen,
                                     deleteIds>>
                 ELSE /\ deleteProgress' =
                           [processed |-> Len(deleteIds), total |-> Len(deleteIds),
                            currentTitle |-> <<>>]
                      /\ FinishBatch
         ELSE /\ deleteError' = DeleteErrorOf(outcome.error, AppUsingInnerTube)
              /\ UNCHANGED <<uiPlaylists, selectedIds, deleteProgress>>
              /\ FinishBatch

\* the cleanup of the mount effect: both controllers are aborted. A handler
\* resumes in the task that settles its call, so no other task runs while a
\* settled call waits
Unmount ==
  /\ mounted
  /\ pc # "settled"
  /\ mounted' = FALSE
  /\ fetchAbortRef' = IF fetchAbortRef = "live" THEN "aborted" ELSE fetchAbortRef
  /\ deleteAbortRef' = IF deleteAbortRef = "live" THEN "aborted" ELSE deleteAbortRef
  /\ UNCHANGED <<deleteError, deleteProgress, isDeleteDialogOpen, deleteIds,
                 deleteIndex>>
  /\ UNCHANGED <<app, viewVars, fetchCaller, headersText, uiPlaylists, selectedIds, headersLocked,
                 isFetching, isDeleting, fetchError, lastAutoAttemptKey>>
  /\ UNCHANGED adapterVars

\* the signal handed to the running adapter call is aborted
signalAborted ==
  \/ op = "list" /\ fetchAbortRef = "aborted"
  \/ op = "delete" /\ deleteAbortRef = "aborted"

\* how a fetch under that signal can be rejected
SessionRejectNames == IF signalAborted THEN {"AbortError"} ELSE {"TypeError"}

SessionHeaderTexts ==
  { HeaderLine(H_Authorization, AUTH_BEARER),
    join(<<HeaderLine(H_Authorization, AUTH_SAPISIDHASH),
           HeaderLine(H_Cookie, COOKIE_VALUE)>>, "\n") }

SessionApiItemLists ==
  { << ApiItem(<<"P","L","1">>, <<"A">>), ApiItem(<<"P","L","2">>, undefined) >> }

SessionBrowseDocs == { DocGridMore, DocSingle }

SessionErrorStatuses == {403, 500}

\* an App from mount to unmount: lists, selection, batch deletes, and the
\* upstreams answering
NextSession ==
  \/ \E text \in SessionHeaderTexts : setHeadersText(text)
  \/ ClickFetchPlaylists
  \/ autoFetchEffect
  \/ handleFetchPlaylistsSettled
  \/ Organizer_handleFetchPlaylists
  \/ Organizer_handleFetchPlaylistsSettled
  \/ \E id \in PlaylistIds : toggleSelect(id)
  \/ openDeleteDialog
  \/ ClickCancel
  \/ handleDeletePlaylists
  \/ handleDeletePlaylistsResumed
  \/ Unmount
  \/ \E items \in SessionApiItemLists :
        ~signalAborted /\ DataApiListResponds(items, undefined)
  \/ ~signalAborted /\ DataApiListFails(403)
  \/ \E name \in SessionRejectNames : DataApiListRejects(name)
  \/ \E data \in SessionBrowseDocs : ~signalAborted /\ InnerTubeBrowseResponds(data)
  \/ \E name \in SessionRejectNames : InnerTubeBrowseRejects(name)
  \/ ~signalAborted /\ DataApiDeleteResponds
  \/ \E status \in SessionErrorStatuses : ~signalAborted /\ DataApiDeleteFails(status)
  \/ \E name \in SessionRejectNames : DataApiDeleteRejects(name)
  \/ ~signalAborted /\ InnerTubeDeleteResponds
  \/ \E status \in SessionErrorStatuses : ~signalAborted /\ InnerTubeDeleteFails(status)
  \/ \E name \in SessionRejectNames : InnerTubeDeleteRejects(name)

SpecSession == InitUI /\ [][NextSession]_vars

----------------------------------------------------------------------------
(* Properties of batch deletion *)

IdsOf(list) == { list[i].id : i \in 1..Len(list) }

\* a delete call of the running batch has been rejected and the handler has
\* not yet resumed
BatchFailed ==
  isDeleting /\ pc = "settled" /\ op = "delete" /\ outcome.kind = "threw"

\* C14: while a batch runs at most one of its delete requests is unanswered;
\* a request for another id than the one before follows only a successful
\* answer; the id being deleted is the one the loop index points at, and
\* every id before it has been deleted successfully.
C14_BatchIsSequential ==
  isDeleting =>
    /\ Len(requests) - Len(responses) \in {0, 1}
    /\ \A j \in 2..Len(requests) :
         requests[j].playlistId # requests[j - 1].playlistId
           => responses[j - 1].kind = "ok"
    /\ Len(requests) > 0 =>
         requests[Len(requests)].playlistId = deleteIds[deleteIndex + 1]
    /\ \A i \in 1..deleteIndex :
         \E j \in 1..Len(responses) :
           requests[j].playlistId = deleteIds[i] /\ responses[j].kind = "ok"

\* the delete of the second id is in flight after the first one succeeded
C14_Witness ==
  /\ isDeleting
  /\ deleteIndex = 1
  /\ Len(requests) = 2
  /\ Len(responses) = 1
  /\ responses[1].kind = "ok"
  /\ requests[1].playlistId # requests[2].playlistId

AbortStopsBatchStep ==
  (isDeleting /\ deleteAbortRef = "aborted") =>
    /\ Len(requests') <= Len(requests)
    /\ ~isDeleting' =>
         /\ deleteError'.kind = "cancelled"
         /\ deleteProgress'.processed = deleteIndex
         /\ deleteProgress'.total = Len(deleteIds)
         /\ deleteIndex < Len(deleteIds)
         /\ Cardinality(selectedIds') = Len(deleteIds) - deleteIndex

\* C16: aborting a batch after N of M deletes stops all further delete
\* requests, and what the App then shows is "cancelled" together with the
\* count N.
C16_CancelReportsCount ==
  [][ /\ AbortStopsBatchStep
      /\ (isDeleting /\ deleteAbortRef = "aborted" /\ ~isDeleting') =>
            progressShown' /\ deleteProgress'.processed = deleteIndex ]_vars

\* a batch of two was aborted after one delete and has ended as cancelled
C16_Witness ==
  /\ ~isDeleting
  /\ ~mounted
  /\ deleteError.kind = "cancelled"
  /\ deleteProgress.processed = 1
  /\ deleteProgress.total = 2
  /\ Cardinality(selectedIds) = 1
  /\ ~progressShown

\* C17: while a batch delete runs the dialog's Cancel control is enabled.
C17_CancelEnabledWhileDeleting ==
  (mounted /\ isDeleting /\ isDeleteDialogOpen) => cancelEnabled

\* a delete request of a batch is in flight, the dialog is open, and its
\* Cancel control is disabled
C17_Witness ==
  /\ mounted
  /\ isDeleting
  /\ isDeleteDialogOpen
  /\ deleteAbortRef = "live"
  /\ Len(requests) = Len(responses) + 1
  /\ ~cancelEnabled

----------------------------------------------------------------------------
(* Properties of list cancellation *)

\* the controller of the running list has been aborted
ListCancelled == op = "list" /\ fetchAbortRef = "aborted"

\* C18: once the controller of a running list is aborted, no further request
\* is issued (no later page, no fallback to the other backend), the call can
\* only end by rejecting with AbortError, and the handler that receives this
\* rejection stores no fetch error and leaves the loaded list as it was.
C18_ListCancellation ==
  [][ ListCancelled =>
        /\ Len(requests') <= Len(requests)
        /\ pc' = "settled" =>
             outcome' = Threw([name |-> "AbortError", status |-> 0])
        /\ ~isFetching' =>
             /\ pc = "settled"
             /\ fetchError' = NoFetchError
             /\ uiPlaylists' = uiPlaylists
             /\ selectedIds' = selectedIds ]_vars

\* a list on the internal backend was aborted while the request for its
\* second page was in flight, and has ended as cancelled
C18_Witness ==
  /\ ListCancelled
  /\ pc = "settled"
  /\ outcome.kind = "threw"
  /\ outcome.error.name = "AbortError"
  /\ Len(requests) = 2
  /\ requests[2].api = "innertube"
  /\ Truthy(continuation)
  /\ Len(playlists) >= 1
  /\ fetchError = NoFetchError

----------------------------------------------------------------------------
(* The adapter called with header maps of every spelling *)

\* headers a caller may add to its Authorization header: restricted names,
\* forbidden names and reserved prefixes in several letter cases, a carrier
\* name, an ordinary name
HeaderCaseEntries ==
  { <<toLowerCase(H_Cookie), COOKIE_VALUE>>,
    <<H_Referer, <<" ","r"," ">> >>,
    <<toUpperCase(H_User_Agent), <<"u","a">> >>,
    <<H_Accept_Language, <<"e","n">> >>,
    <<H_Origin, <<"o">> >>,
    <<toLowerCase(H_Origin), <<" ">> >>,
    <<Get(PROXY_HEADER_MAP, H_Cookie), <<"x">> >>,
    <<Get(PROXY_HEADER_MAP, H_Origin), <<"y">> >>,
    << <<"H","o","s","t">>, <<"h">> >>,
    << <<"c","o","n","n","e","c","t","i","o","n">>, <<"c">> >>,
    << <<"C","O","N","T","E","N","T","-","L","E","N","G","T","H">>, <<"1">> >>,
    << <<"D","N","T">>, <<"1">> >>,
    << <<"t","e">>, <<"t">> >>,
    << <<"s","e","c","-","F","e","t","c","h","-","M","o","d","e">>, <<"m">> >>,
    << <<"P","R","O","X","Y","-","a">>, <<"p">> >>,
    <<H_X_Goog_Visitor_Id, <<"v">> >> }

HeaderCaseMaps ==
  { << <<H_Authorization, auth>> >> \o extra :
      auth \in {AUTH_BEARER, AUTH_SAPISIDHASH},
      extra \in {<<>>} \cup { <<e>> : e \in HeaderCaseEntries }
                \cup { p \in HeaderCaseEntries \X HeaderCaseEntries :
                         p[1][1] # p[2][1] } }

CallWithHeaders ==
  /\ \E raw \in HeaderCaseMaps :
        \/ fetchAllPlaylists(raw)
        \/ \E id \in PlaylistIds : deletePlaylist(id, raw)
  /\ UNCHANGED uiVars

NextHeaders ==
  \/ CallWithHeaders
  \/ \E token \in {undefined, <<"t","1">>} : DataApiListResponds(<<>>, token)
  \/ DataApiListFails(403)
  \/ InnerTubeBrowseResponds(DocSingle)
  \/ DataApiDeleteResponds
  \/ DataApiDeleteFails(401)
  \/ InnerTubeDeleteResponds
  \/ Return

SpecHeaders == Init /\ [][NextHeaders]_vars

----------------------------------------------------------------------------
(* Properties of the outgoing header set *)

\* header names are compared without regard to letter case
SameHeaderName(a, b) == toLowerCase(trim(a)) = toLowerCase(trim(b))

\* the value a header has after the defaults and the caller's headers are
\* merged: the caller's if it names the header, else the default, else none
RECURSIVE LastValueOf(_, _, _)
LastValueOf(entries, name, found) ==
  IF entries = <<>> THEN found
  ELSE LastValueOf(Tail(entries), name,
                   IF SameHeaderName(entries[1][1], name)
                   THEN entries[1][2] ELSE found)

MergedValue(raw, name) == LastValueOf(DEFAULT_HEADERS \o raw, name, undefined)

\* C19: in the header set of every request none of the five restricted
\* headers appears under its real name, and each of them whose merged value
\* is not blank appears under its carrier name with that value.
C19_RestrictedHeadersUseCarriers ==
  \A k \in 1..Len(requests) : \A i \in 1..Len(PROXY_HEADER_MAP) :
    LET real    == PROXY_HEADER_MAP[i][1]
        carrier == PROXY_HEADER_MAP[i][2]
        value   == MergedValue(rawHeaders, real)
    IN  /\ HeadersGet(requests[k].headers, real) = undefined
        /\ (value # undefined /\ Truthy(trim(value))) =>
              HeadersGet(requests[k].headers, carrier) = trim(value)

\* a request went out for a caller who gave a Cookie header and, after it, a
\* header under the Cookie carrier's own name: the carrier holds the latter
C19_Witness ==
  /\ Len(requests) >= 1
  /\ Len(rawHeaders) = 3
  /\ SameHeaderName(rawHeaders[2][1], H_Cookie)
  /\ SameHeaderName(rawHeaders[3][1], Get(PROXY_HEADER_MAP, H_Cookie))
  /\ HeadersGet(requests[1].headers, H_Cookie) = undefined
  /\ HeadersGet(requests[1].headers, Get(PROXY_HEADER_MAP, H_Cookie)) = <<"x">>

\* a name of the forbidden set or under a reserved prefix, in any letter case
IsForbiddenAnyCase(name) ==
  \/ \E f \in FORBIDDEN_HEADER_NAMES : SameHeaderName(f, name)
  \/ \E i \in 1..Len(FORBIDDEN_HEADER_PREFIXES) :
        startsWith(toLowerCase(trim(name)), toLowerCase(FORBIDDEN_HEADER_PREFIXES[i]))

\* C20: no header that the caller gave under a forbidden name or under a
\* reserved prefix, whatever its letter case, is in the header set of any
\* request.
C20_ForbiddenHeadersDropped ==
  \A k \in 1..Len(requests) : \A j \in 1..Len(rawHeaders) :
    IsForbiddenAnyCase(rawHeaders[j][1]) =>
      HeadersGet(requests[k].headers, trim(rawHeaders[j][1])) = undefined

\* a request went out with the caller's DNT header in its header set, while
\* the Host header given with it was dropped
C20_Witness ==
  /\ Len(requests) >= 1
  /\ \E j \in 1..Len(rawHeaders) : SameHeaderName(rawHeaders[j][1], <<"H","o","s","t">>)
  /\ HeadersGet(requests[1].headers, <<"H","o","s","t">>) = undefined
  /\ HeadersGet(requests[1].headers, <<"D","N","T">>) = <<"1">>

----------------------------------------------------------------------------
(* Header names typed into the textarea *)

\* the longest header name typed
MaxNameLen == 3

\* the characters of the typed names: a lower-case and an upper-case letter,
\* the segment separator, a blank
NameChars == {"a", "B", "-", " "}

NameStrings == UNION { [1..n -> NameChars] : n \in 0..MaxNameLen }

\* the textarea holds one line "<name>: v"
NextNames ==
  \E name \in NameStrings : setHeadersText(HeaderLine(name, <<"v">>))

SpecNames == InitUI /\ [][NextNames]_vars

\* the name in front of the separator of the typed line
TypedName == slice(headersText, 0, indexOf(headersText, ":"))

\* C21: normalizeHeaderName is idempotent: normalising the typed name twice
\* gives what normalising it once gives, and every key of the parsed header
\* map (a normalised name) is left as it is by normalising it again.
C21_NormalizeIdempotent ==
  /\ headersText # <<>> =>
       normalizeHeaderName(normalizeHeaderName(TypedName)) = normalizeHeaderName(TypedName)
  /\ \A i \in 1..Len(headers) : normalizeHeaderName(headers[i][1]) = headers[i][1]
  /\ \A i \in 1..Len(Organizer_headers) :
       normalizeHeaderName(Organizer_headers[i][1]) = Organizer_headers[i][1]

\* a name of two segments in mixed case, typed with a leading blank, has been
\* parsed into its normal form
C21_Witness ==
  /\ TypedName = <<" ", "a", "-", "B">> \/ TypedName = <<"a", "-", "B">>
  /\ normalizeHeaderName(TypedName) = <<"A", "-", "B">>
  /\ Has(headers, <<"A", "-", "B">>)

----------------------------------------------------------------------------
(* Properties of internal pagination *)

\* the continuation token the extractor takes from the k-th answer
ExtractedToken(k) == parseBrowseResponse(responses[k].body).continuation

\* C22: in an internal list the first browse request carries the browse
\* target and no continuation; every later request carries the token
\* extracted from the answer just before it and no browse target; and the
\* answer from which no token is extracted ends the list: no request follows
\* it and the call returns.
C22_ContinuationChain ==
  (op = "list" /\ FirstInternal > 0) =>
    /\ requests[FirstInternal].browseId = PLAYLIST_BROWSE_ID
    /\ requests[FirstInternal].token = undefined
    /\ \A k \in (FirstInternal + 1)..Len(requests) :
         /\ requests[k].api = "innertube"
         /\ requests[k].path = "browse"
         /\ responses[k - 1].kind = "ok"
         /\ Truthy(ExtractedToken(k - 1))
         /\ requests[k].token = ExtractedToken(k - 1)
         /\ requests[k].browseId = undefined
    /\ \A k \in FirstInternal..Len(responses) :
         (responses[k].kind = "ok" /\ ~Truthy(ExtractedToken(k)))
           => /\ k = Len(requests)
              /\ pc = "settled"
              /\ outcome.kind = "returned"

\* an internal list of three pages has returned: two answers with a token,
\* then one without
C22_Witness ==
  /\ op = "list"
  /\ FirstInternal = 1
  /\ Len(requests) = 3
  /\ Len(responses) = 3
  /\ Truthy(ExtractedToken(1))
  /\ Truthy(ExtractedToken(2))
  /\ ~Truthy(ExtractedToken(3))
  /\ pc = "settled"
  /\ outcome.kind = "returned"

----------------------------------------------------------------------------
(* The extractor's continuation token *)

TokenDocs ==
  {DocSingle, DocText, DocCounts, DocGridMore, DocLockupCycle, DocThird,
   DocTokens, DocTokenTwice}

NextTokens ==
  \/ ExtractorList
  \/ \E data \in TokenDocs : InnerTubeBrowseResponds(data)
  \/ Return

SpecTokens == Init /\ [][NextTokens]_vars

\* the values walk descends into from an object or array, in its order: the
\* six containers first, then every property value
RECURSIVE ContainerValues(_, _, _)
ContainerValues(heap, node, fields) ==
  IF fields = <<>> THEN <<>>
  ELSE LET inner == Path(heap, Prop(heap, node, Head(fields)[1]), <<Head(fields)[2]>>)
       IN  (IF JTruthy(inner) THEN <<inner>> ELSE <<>>)
           \o ContainerValues(heap, node, Tail(fields))

ChildrenOf(heap, node) ==
  IF heap[node.n].isArray THEN ValuesOf(heap, node)
  ELSE ContainerValues(heap, node, CONTAINER_FIELDS) \o ValuesOf(heap, node)

\* the object nodes in the order a depth-first traversal first reaches them,
\* computed with an explicit stack
RECURSIVE VisitOrder(_, _, _, _)
VisitOrder(heap, stack, done, order) ==
  IF stack = <<>> THEN order
  ELSE IF ~IsObject(Head(stack)) \/ Head(stack).n \in done
  THEN VisitOrder(heap, Tail(stack), done, order)
  ELSE VisitOrder(heap, ChildrenOf(heap, Head(stack)) \o Tail(stack),
                  done \cup {Head(stack).n}, Append(order, Head(stack).n))

\* the token one node yields by itself, as a sequence of none or one
TokenAt(heap, node) == recordContinuation(heap, node, WalkInit).continuationTokens

\* the tokens a document holds, in the order the traversal meets them: at
\* each object node the node's own, then that of its continuation item
RECURSIVE TokensAlong(_, _)
TokensAlong(heap, order) ==
  IF order = <<>> THEN <<>>
  ELSE (IF heap[Head(order)].isArray THEN <<>>
        ELSE TokenAt(heap, JRef(Head(order)))
             \o TokenAt(heap, Prop(heap, JRef(Head(order)), "continuationItemRenderer")))
       \o TokensAlong(heap, Tail(order))

TokensOf(data) == TokensAlong(data.heap, VisitOrder(data.heap, <<data.root>>, {}, <<>>))

\* C23: from every answer the extractor takes no token or one; it takes none
\* exactly when the traversal meets none, and otherwise the one it meets
\* first; tokens met later play no part in the next request.
C23_FirstTokenWins ==
  \A k \in 1..Len(responses) :
    (responses[k].kind = "ok" /\ requests[k].api = "innertube") =>
      LET met == TokensOf(responses[k].body)
      IN  /\ responses[k].token = IF met = <<>> THEN undefined ELSE met[1]
          /\ (k < Len(requests)) => (met # <<>> /\ requests[k + 1].token = met[1])

\* the answer held three different tokens; the one in the root's own
\* continuation item was met first and is the one the next request carries
C23_Witness ==
  /\ Len(requests) = 2
  /\ responses[1].body = DocTokens
  /\ SeqToSet(TokensOf(DocTokens)) = { <<"t","1">>, <<"t","2">>, <<"t","3">> }
  /\ responses[1].token = <<"t","3">>
  /\ requests[2].token = <<"t","3">>


\* ---------------------------------------------------------------------
\* View-model lockups whose nested fields have unexpected types
\* ---------------------------------------------------------------------

\* what a field that the conversion maps over can hold
ShapeKinds == {"absent", "null", "array", "object", "string", "number"}

ShapeValue(kind, arrayNode) ==
  CASE kind = "null"   -> JNull
    [] kind = "array"  -> JRef(arrayNode)
    [] kind = "object" -> JRef(18)
    [] kind = "string" -> JStr(<<"x">>)
    [] OTHER           -> JNum(0)

ShapeProp(name, kind, arrayNode) ==
  IF kind = "absent" THEN <<>> ELSE << <<name, ShapeValue(kind, arrayNode)>> >>

\* an answer with the record PL1 "A" and the view-model lockup PL2, in either
\* order, whose metadataRows, whose row's metadataParts and whose overlays
\* are of the given kinds
ShapeDoc(rows, parts, overlays, lockupFirst) ==
  [root |-> JRef(1),
   heap |-> << JArr(IF lockupFirst THEN << JRef(3), JRef(2) >> ELSE << JRef(2), JRef(3) >>),
               JObj(<< <<"playlistRenderer", JRef(4)>> >>),
               JObj(<< <<"lockupViewModel", JRef(5)>>,
                       <<"contentId", JStr(<<"P","L","2">>)>>,
                       <<"contentType", JStr(<<"L","O","C","K","U","P","_","P","L","A","Y","L","I","S","T">>)>> >>),
               JObj(<< <<"playlistId", JStr(<<"P","L","1">>)>>, <<"title", JStr(<<"A">>)>> >>),
               JObj(<< <<"metadata", JRef(6)>>, <<"contentImage", JRef(7)>> >>),
               JObj(<< <<"lockupMetadataViewModel", JRef(8)>> >>),
               JObj(<< <<"collectionThumbnailViewModel", JRef(9)>> >>),
               JObj(<< <<"metadata", JRef(10)>> >>),
               JObj(<< <<"primaryThumbnail", JRef(11)>> >>),
               JObj(<< <<"contentMetadataViewModel", JRef(12)>> >>),
               JObj(<< <<"thumbnailViewModel", JRef(13)>> >>),
               JObj(ShapeProp("metadataRows", rows, 14)),
               JObj(ShapeProp("overlays", overlays, 17)),
               JArr(<< JRef(15) >>),
               JObj(ShapeProp("metadataParts", parts, 16)),
               JArr(<<>>),
               JArr(<<>>),
               JObj(<<>>) >>]

ShapeDocs ==
  { ShapeDoc(rows, parts, overlays, lockupFirst) :
      rows \in ShapeKinds, parts \in ShapeKinds, overlays \in ShapeKinds,
      lockupFirst \in BOOLEAN }

\* list calls on the internal path answered with these documents
NextShapes ==
  \/ ExtractorList
  \/ \E data \in ShapeDocs : InnerTubeBrowseResponds(data)
  \/ Return

SpecShapes == Init /\ [][NextShapes]_vars

\* the fields of the answered document can all be mapped over
ShapesMappable(data) ==
  \E rows \in {"absent", "null", "array"}, parts \in {"absent", "null", "array"},
     overlays \in {"absent", "null", "array"}, lockupFirst \in BOOLEAN :
    data = ShapeDoc(rows, parts, overlays, lockupFirst)

\* C24 (as stated): extraction never raises. Every list call whose internal
\* request was answered with a success document completes with a returned
\* list, and the well-formed record PL1 that stands beside the lockup is in
\* it, whatever the types of the lockup's nested fields.
C24_ExtractorNeverRaises ==
  (/\ pc = "settled"
   /\ op = "list"
   /\ Len(responses) = 1
   /\ responses[1].kind = "ok"
   /\ responses[1].body \in ShapeDocs)
    => /\ outcome.kind = "returned"
       /\ <<"P","L","1">> \in IdsOf(outcome.value)

\* the lockup's overlays is a plain object, its rows are fine: the list call
\* has ended with a TypeError and returned no record, PL1 included
C24_Witness ==
  /\ pc = "settled"
  /\ op = "list"
  /\ Len(responses) = 1
  /\ responses[1].body = ShapeDoc("array", "array", "object", FALSE)
  /\ outcome = Threw([name |-> "TypeError", status |-> 0])
  /\ playlists = <<>>

\* with fields that are arrays, null or absent the call returns both records
C24_MappableShapesReturn ==
  (/\ pc = "settled"
   /\ Len(responses) = 1
   /\ responses[1].kind = "ok"
   /\ ShapesMappable(responses[1].body))
    => /\ outcome.kind = "returned"
       /\ IdsOf(outcome.value) = { <<"P","L","1">>, <<"P","L","2">> }


----------------------------------------------------------------------------
(* Selection, search, sort and unlock over the internal API *)

COOKIE_OTHER == <<"S","I","D","=","2">>

\* two credentials of the session-hash shape, each complete
CredentialHeaderTexts ==
  { join(<<HeaderLine(H_Authorization, AUTH_SAPISIDHASH),
           HeaderLine(H_Cookie, COOKIE_VALUE)>>, "\n"),
    join(<<HeaderLine(H_Authorization, AUTH_SAPISIDHASH),
           HeaderLine(H_Cookie, COOKIE_OTHER)>>, "\n") }

\* the playlists PL1 "b" and PL2 "A", and no continuation
DocPair ==
  [root |-> JRef(1),
   heap |-> << JArr(<< JRef(2), JRef(4) >>),
               JObj(<< <<"playlistRenderer", JRef(3)>> >>),
               JObj(<< <<"playlistId", JStr(<<"P","L","1">>)>>, <<"title", JStr(<<"b">>)>> >>),
               JObj(<< <<"playlistRenderer", JRef(5)>> >>),
               JObj(<< <<"playlistId", JStr(<<"P","L","2">>)>>, <<"title", JStr(<<"A">>)>> >>) >>]

SearchTexts == { <<>>, <<"a">> }

\* one credential; search, sort, select-all, unlock and batch deletes
NextSelection ==
  \/ setHeadersText(join(<<HeaderLine(H_Authorization, AUTH_SAPISIDHASH),
                           HeaderLine(H_Cookie, COOKIE_VALUE)>>, "\n"))
  \/ ClickFetchPlaylists
  \/ autoFetchEffect
  \/ handleFetchPlaylistsSettled
  \/ Organizer_handleFetchPlaylists
  \/ Organizer_handleFetchPlaylistsSettled
  \/ \E id \in PlaylistIds : toggleSelect(id)
  \/ toggleSelectAll
  \/ Organizer_toggleSelectAll
  \/ \E text \in SearchTexts : setSearchQuery(text)
  \/ handleToggleSort
  \/ handleUnlockHeaders
  \/ openDeleteDialog
  \/ ClickCancel
  \/ handleDeletePlaylists
  \/ handleDeletePlaylistsResumed
  \/ InnerTubeBrowseResponds(DocPair)
  \/ InnerTubeBrowseRejects("TypeError")
  \/ InnerTubeDeleteResponds
  \/ InnerTubeDeleteFails(500)

SpecSelection == InitUI /\ [][NextSelection]_vars

\* the batch deleter under two credentials, from mount to unmount: lists,
\* unlock, retyping, selection and batch deletes
NextCredentials ==
  \/ \E text \in CredentialHeaderTexts : setHeadersText(text)
  \/ ClickFetchPlaylists
  \/ autoFetchEffect
  \/ handleFetchPlaylistsSettled
  \/ \E id \in PlaylistIds : toggleSelect(id)
  \/ handleUnlockHeaders
  \/ openDeleteDialog
  \/ ClickCancel
  \/ handleDeletePlaylists
  \/ handleDeletePlaylistsResumed
  \/ Unmount
  \/ ~signalAborted /\ InnerTubeBrowseResponds(DocPair)
  \/ \E name \in SessionRejectNames : InnerTubeBrowseRejects(name)
  \/ ~signalAborted /\ InnerTubeDeleteResponds
  \/ ~signalAborted /\ InnerTubeDeleteFails(500)
  \/ signalAborted /\ InnerTubeDeleteRejects("AbortError")

\* the batch deleter is mounted
InitCredentials ==
  /\ AdapterInit
  /\ UiInit
  /\ app = "deleter"

SpecCredentials == InitCredentials /\ [][NextCredentials]_vars

LoadedIds == { uiPlaylists[i].id : i \in 1..Len(uiPlaylists) }

\* C25: the selected ids are always ids of loaded playlists, and so are the
\* ids a running batch delete still has to process, the one in flight
\* included.
C25_SelectionWithinLoaded ==
  /\ selectedIds \subseteq LoadedIds
  /\ isDeleting =>
       \A i \in (deleteIndex + 1)..Len(deleteIds) : deleteIds[i] \in LoadedIds
  /\ (op = "delete" /\ pc # "idle") => playlistId \in LoadedIds

\* under the search "a" and a descending sort, select-all has taken the one
\* visible playlist of the two loaded, and the batch is deleting it
C25_Witness ==
  /\ app = "deleter"
  /\ searchQuery = <<"a">>
  /\ sortDirection = <<"d","e","s","c">>
  /\ Len(uiPlaylists) = 2
  /\ selectedIds = { <<"P","L","2">> }
  /\ isDeleting
  /\ deleteIds = << <<"P","L","2">> >>
  /\ Len(requests) = 1
  /\ requests[1].playlistId = <<"P","L","2">>


\* C26: in the batch deleter a non-empty playlist list implies locked
\* headers, the header text changes only while no playlists are loaded, and
\* every adapter call, list or delete, carries the headers parsed from the
\* current text: a delete is built from the headers that produced the list.
C26_LoadedImpliesLocked ==
  /\ [](app = "deleter" =>
          /\ uiPlaylists # <<>> => headersLocked
          /\ pc # "idle" => rawHeaders = headers)
  /\ [][(app = "deleter" /\ headersText' # headersText)
          => (uiPlaylists = <<>> /\ uiPlaylists' = <<>>)]_vars

\* the second credential was typed after an unlock, its list loaded two
\* playlists and locked the headers, and a delete built from it is in flight
C26_Witness ==
  /\ app = "deleter"
  /\ headersText = join(<<HeaderLine(H_Authorization, AUTH_SAPISIDHASH),
                          HeaderLine(H_Cookie, COOKIE_OTHER)>>, "\n")
  /\ lastAutoAttemptKey = autoFetchKey
  /\ headersLocked
  /\ Len(uiPlaylists) = 2
  /\ op = "delete"
  /\ pc = "deletePlaylistInnerTube"
  /\ rawHeaders = headers
  /\ Get(rawHeaders, H_Cookie) = COOKIE_OTHER


\* the step is the automatic fetch effect starting a list
AutoListStarts ==
  /\ app = "deleter"
  /\ ~isFetching
  /\ isFetching'
  /\ fetchCaller' = "effect"

\* the automatic fetch effect is due after a step that left the header text,
\* and with it the credential key, as it was
AutoListDueAfter ==
  /\ app = "deleter"
  /\ mounted'
  /\ ~headersLocked'
  /\ ~(isFetching' \/ isDeleting')
  /\ autoFetchKey # null
  /\ autoFetchKey # lastAutoAttemptKey'

\* C27: an automatic list is due only in the step that changes the header
\* text, so never after a list failed or was cancelled, after an unlock or
\* after a batch; it starts only with a credential key different from the
\* last attempted one, with unlocked headers and with no list or batch
\* running; and the last attempted key is only ever set to the current key.
C27_AutoListOncePerKey ==
  [][/\ headersText' = headersText => ~AutoListDueAfter
     /\ AutoListStarts =>
          /\ autoFetchKey # null
          /\ autoFetchKey # lastAutoAttemptKey
          /\ ~headersLocked
          /\ ~isDeleting
          /\ pc = "idle"
          /\ lastAutoAttemptKey' = autoFetchKey
     /\ lastAutoAttemptKey' # lastAutoAttemptKey =>
          /\ lastAutoAttemptKey' = autoFetchKey
          /\ headersText' = headersText
     /\ (headersLocked /\ ~headersLocked') => (pc' = "idle" /\ ~isFetching')]_vars

\* the automatic list of the current key has failed: the headers are
\* unlocked, nothing runs, and no automatic list is due
C27_Witness ==
  /\ app = "deleter"
  /\ mounted
  /\ autoFetchKey # null
  /\ lastAutoAttemptKey = autoFetchKey
  /\ fetchError.kind = "message"
  /\ ~headersLocked
  /\ ~isFetching
  /\ pc = "idle"
  /\ uiPlaylists = <<>>
  /\ ~autoFetchEffectPending


----------------------------------------------------------------------------
(* Properties of a session: one operation at a time *)

\* a control that starts a list can be used, or the automatic list is due
ListStartEnabled ==
  /\ mounted
  /\ \/ /\ app = "deleter"
        /\ ~isDeleteDialogOpen
        /\ ~(isFetching \/ isActionDisabled)
     \/ autoFetchEffectPending
     \/ /\ app = "organizer"
        /\ ~isDeleteDialogOpen
        /\ ~(isFetching \/ Organizer_isActionDisabled)

\* the Confirm control of the delete dialog can be used
BatchStartEnabled == mounted /\ isDeleteDialogOpen /\ ~isDeleting

\* C28: isFetching is set exactly while a list call is in flight and
\* isDeleting exactly while a delete call of a batch is, never both; and
\* whenever a control that starts a list or a batch can be used, or the
\* automatic list is due, no operation is in flight.
C28_OneOperationInFlight ==
  /\ isFetching <=> (op = "list" /\ pc # "idle")
  /\ isDeleting <=> (op = "delete" /\ pc # "idle")
  /\ ~(isFetching /\ isDeleting)
  /\ BatchStartEnabled => (pc = "idle" /\ ~isFetching)
  /\ pc # "idle" => ~ListStartEnabled

\* a refresh is in flight while a playlist is selected: only the running
\* list keeps the delete trigger disabled
C28_Witness ==
  /\ mounted
  /\ isFetching
  /\ op = "list"
  /\ pc \in {"fetchPlaylistsInnerTube", "fetchPlaylistsDataApi"}
  /\ selectedIds # {}
  /\ deleteTriggerDisabled
  /\ ~isDeleting
  /\ Len(AppMissingRequiredHeaders) = 0
  /\ ~isDeleteDialogOpen


\* C29: while a list call runs, no answer of an upstream changes the loaded
\* playlists or the selection; when the call has failed or was cancelled the
\* handler leaves both as they are; when it has returned, the loaded
\* playlists become exactly the returned sequence, which is everything the
\* call gathered, and the selection becomes empty.
C29_ListReplacesOrKeeps ==
  [][/\ (op = "list" /\ responses' # responses /\ pc' # "idle")
          => UNCHANGED <<uiPlaylists, selectedIds>>
     /\ (op = "list" /\ pc = "settled" /\ pc' = "idle" /\ outcome.kind = "threw")
          => UNCHANGED <<uiPlaylists, selectedIds>>
     /\ (op = "list" /\ pc = "settled" /\ pc' = "idle" /\ outcome.kind = "returned")
          => /\ uiPlaylists' = outcome.value
             /\ outcome.value = playlists
             /\ selectedIds' = {}]_vars

\* a refresh of a loaded list has failed: the playlists are still loaded
\* and one of them is still selected
C29_Witness ==
  /\ pc = "idle"
  /\ ~isFetching
  /\ fetchError.kind \in {"api", "message"}
  /\ Len(uiPlaylists) = 2
  /\ selectedIds = { <<"P","L","1">> }


----------------------------------------------------------------------------
(* The backend the App reports and the backend the adapter contacts *)

\* C30 (as stated): whenever a list call started by an App has issued its
\* first request, that request goes to the internal API exactly if the App
\* classifies the submitted headers as internal (and has required a Cookie
\* for them).
C30_UiBackendIsAdapterBackend ==
  (app \in {"deleter", "organizer"} /\ op = "list" /\ Len(requests) >= 1)
    => ((requests[1].api = "innertube") <=> AppUsingInnerTube)

\* the organizer has accepted "Authorization: Basic xyz" with a Cookie,
\* reports the internal API for it, and the adapter's first request is the
\* official API's playlists GET
C30_Witness ==
  /\ app = "organizer"
  /\ headersText = join(<<HeaderLine(H_Authorization, AUTH_BASIC),
                          HeaderLine(H_Cookie, COOKIE_VALUE)>>, "\n")
  /\ Organizer_fetchGuard = "none"
  /\ Organizer_usingInnerTube
  /\ ~Organizer_usingOfficialApi
  /\ isFetching
  /\ Len(requests) = 1
  /\ requests[1].api = "data"
  /\ requests[1].method = "GET"

====
